---- MODULE Spec2Model ----
(***************************************************************************)
(* The analysis pass of cvs2svn (cvs2svn_lib/collect_data.py): the global  *)
(* collector CollectData, the per-file _FileDataCollector driven by the    *)
(* archive parser's callbacks, and the per-file _SymbolDataCollector.      *)
(*                                                                         *)
(* Conventions.  A revision number is the sequence of its components       *)
(* ("1.3.2.1" is <<1,3,2,1>>); Python's None and '' for a revision number  *)
(* are both the empty sequence, which is what the code's truth tests       *)
(* ("if next:", "if not rev_data.parent") make of them.  An optional       *)
(* integer is <<>> or <<n>>.  A symbol name is a record [label, num]: a    *)
(* name of the archive header has num = <<>>, the synthesized name         *)
(* "unlabeled-<branch number>" has label "unlabeled-" and num the number.  *)
(***************************************************************************)
EXTENDS Integers, Sequences, FiniteSets, TLC

\* ------------------------------------------------------------------ bounds

\* Resync may lower a timestamp without limit when the parent links are
\* cyclic; the model stops lowering below this floor.
TimeFloor == 0

\* The most define_tag and define_revision callbacks the parser makes for a
\* file.
MaxSymbols == 2
MaxRevisions == 5

\* ----------------------------------------------------------- small helpers

None == <<>>

Last(s) == s[Len(s)]

\* s[0:s.rfind('.')] / s[:s.rindex('.')] on a dotted number
Front(s) == SubSeq(s, 1, Len(s) - 1)

Range(s) == {s[i] : i \in 1..Len(s)}

\* d with d[k] = v (a Python dict assignment)
Put(d, k, v) == [x \in (DOMAIN d) \cup {k} |-> IF x = k THEN v ELSE d[x]]

EmptyDict == [x \in {} |-> 0]

Name(label) == [label |-> label, num |-> <<>>]

\* ------------------------------------------------ revision-number calculus

is_trunk_revision(rev) == Len(rev) = 2

is_branch_revision(rev) == Len(rev) >= 4

is_same_line_of_development(rev1, rev2) ==
  IF rev1 = None \/ rev2 = None THEN FALSE
  ELSE IF Len(rev1) = 2 /\ Len(rev2) = 2 THEN TRUE
  ELSE Front(rev1) = Front(rev2)

\* vendor_revision.match(rev): ^1\.1\.1\.\d+$
vendor_revision(rev) == Len(rev) = 4 /\ SubSeq(rev, 1, 3) = <<1, 1, 1>>

\* (mutant) the pattern without its optional 0 component
branch_tag_re_NoZero(revision) ==
  IF Len(revision) >= 3 /\ Len(revision) % 2 = 1 THEN <<revision>> ELSE <<>>

\* branch_tag_re.match(revision): <<>> when there is no match, else
\* <<m.group(1) + m.group(2)>>.  Group 1 is a nonzero even number of
\* components, then an optional 0 component, then the last component.
branch_tag_re(revision) ==
  LET n == Len(revision) IN
  IF n >= 3 /\ n % 2 = 1 THEN <<revision>>
  ELSE IF n >= 4 /\ n % 2 = 0 /\ revision[n - 1] = 0
       THEN <<SubSeq(revision, 1, n - 2) \o <<revision[n]>> >>
       ELSE <<>>

\* ------------------------------------------------------------ configuration

\* Ctx().symbol_transforms: an ordered list of rules; a rule rewrites the
\* names its pattern matches.
SymbolTransforms == << [pattern |-> {"T2"}, replacement |-> "T"] >>

InitialRevisionLog == "Initial revision\n"

\* ----------------------------------------------------------------- state

VARIABLES
  \* the process_file calls made so far, and where the running one stands
  processed,          \* pathnames process_file has been called with
  phase,              \* "idle", "admin", "expand", "symbols", "tree",
                      \* "resync", "deltas", "raised", "crashed"
  exc,                \* the exception in flight when phase = "raised"
  \* CollectData
  cvs_revs_db,        \* { c_rev.id : CVSRevision }
  all_revs,           \* the ids written to the all-revisions file
  resync,             \* the lines written to the resync file
  metadata_db,        \* { digest : (author, log) }
  fatal_errors,
  num_files,
  symbol_db,          \* SymbolDatabase: the registered symbol facts
  file_key_generator, \* the next id each generator gives
  key_generator,
  cvs_file_db,        \* Ctx()._cvs_file_db: { id : CVSFile }
  \* _FileDataCollector (fdc of the running process_file)
  cvs_file,
  rev_data,           \* { revision : _RevisionData }
  rev_order,
  primary_dependencies,
  default_branch,
  first_non_vendor_revision_date,
  \* _SymbolDataCollector (fdc.sdc)
  known_symbols,
  branches_data,      \* { branch_number : _BranchData }
  tags_data,          \* { revision : [ _TagData ] }
  \* tree_completed's loop
  walk,               \* <<>>, or <<r>>: _resync_chain's rev_data is r
  \* svn_commit
  SVNCommit_revnum,   \* SVNCommit.revnum, the class attribute
  commits,            \* the SVNCommit objects, in the order of their creation
  trunk_only,         \* Ctx().trunk_only
  commit_exc,         \* the exception the last SVNCommit call raised
  revprops,           \* what the last SVNCommit call returned, when it
                      \* was get_revprops
  log_warn            \* the lines given to Log().warn: by the last SVNCommit
                      \* call, or by the resync of the files so far

collectVars == <<cvs_revs_db, all_revs, resync, metadata_db, fatal_errors,
                 num_files, symbol_db, file_key_generator, key_generator,
                 cvs_file_db>>
fdcVars == <<cvs_file, rev_data, rev_order, primary_dependencies,
             default_branch, first_non_vendor_revision_date>>
sdcVars == <<known_symbols, branches_data, tags_data>>
svnVars == <<SVNCommit_revnum, commits, trunk_only, commit_exc, revprops,
             log_warn>>

vars == <<processed, phase, exc, collectVars, fdcVars, sdcVars, walk,
         svnVars>>

\* SymbolDatabase(): no symbol has any count, there is no blocker
EmptySymbolDb ==
  [branch_creations |-> EmptyDict, branch_commits |-> EmptyDict,
   tag_creations |-> EmptyDict, blockers |-> {}]

Count(d, name) == IF name \in DOMAIN d THEN d[name] ELSE 0

register_branch_creation(db, name) ==
  [db EXCEPT !.branch_creations = Put(@, name, Count(@, name) + 1)]

register_tag_creation(db, name) ==
  [db EXCEPT !.tag_creations = Put(@, name, Count(@, name) + 1)]

register_branch_commit(db, name) ==
  [db EXCEPT !.branch_commits = Put(@, name, Count(@, name) + 1)]

register_branch_blocker(db, name, blocker) ==
  [db EXCEPT !.blockers = @ \cup {<<name, blocker>>}]

\* No fdc exists between two process_file calls.
NoCvsFile == [id |-> 0, filename |-> [dir |-> <<>>, base |-> ""],
              canonical_filename |-> [dir |-> <<>>, base |-> ""],
              in_attic |-> FALSE, mode |-> "None", default_branch |-> None]

NoFdc ==
  /\ cvs_file' = NoCvsFile
  /\ rev_data' = EmptyDict
  /\ rev_order' = <<>>
  /\ primary_dependencies' = <<>>
  /\ default_branch' = None
  /\ first_non_vendor_revision_date' = <<>>
  /\ known_symbols' = {}
  /\ branches_data' = EmptyDict
  /\ tags_data' = EmptyDict
  /\ walk' = <<>>

\* CollectData.__init__
\* revnum = 2: the revision number of the first new SVNCommit
FirstRevnum == 2

Init ==
  /\ processed = {}
  /\ phase = "idle"
  /\ exc = "None"
  /\ cvs_revs_db = EmptyDict
  /\ all_revs = <<>>
  /\ resync = <<>>
  /\ metadata_db = EmptyDict
  /\ fatal_errors = <<>>
  /\ num_files = 0
  /\ symbol_db = EmptySymbolDb
  /\ file_key_generator = 1
  /\ key_generator = 1
  /\ cvs_file_db = EmptyDict
  /\ cvs_file = NoCvsFile
  /\ rev_data = EmptyDict
  /\ rev_order = <<>>
  /\ primary_dependencies = <<>>
  /\ default_branch = None
  /\ first_non_vendor_revision_date = <<>>
  /\ known_symbols = {}
  /\ branches_data = EmptyDict
  /\ tags_data = EmptyDict
  /\ walk = <<>>
  /\ SVNCommit_revnum = FirstRevnum
  /\ commits = <<>>
  /\ trunk_only = FALSE
  /\ commit_exc = "None"
  /\ revprops = <<>>
  /\ log_warn = <<>>

\* ------------------------------------------------------------- the file system

\* A pathname: the components of its directory, and its base name.
Path(dir, base) == [dir |-> dir, base |-> base]

\* The ,v files of the repository being converted (os.path.exists, os.stat).
Disk == { Path(<<"proj">>, "a,v"),
          Path(<<"proj">>, "b,v"),
          Path(<<"proj", "Attic">>, "b,v") }

\* dirname.endswith(OS_SEP_PLUS_ATTIC), for an absolute pathname
InAttic(pathname) ==
  Len(pathname.dir) >= 1 /\ Last(pathname.dir) = "Attic"

\* os.path.join(dirname[:-len(OS_SEP_PLUS_ATTIC)], basename)
CanonicalFilename(pathname) ==
  IF InAttic(pathname) THEN Path(Front(pathname.dir), pathname.base)
  ELSE pathname

\* os.path.join(os.path.dirname(pathname), 'Attic', os.path.basename(pathname))
AtticPath(pathname) == Path(pathname.dir \o <<"Attic">>, pathname.base)

\* -------------------------------------------------------------- process_file

Parsing == {"admin", "expand", "symbols", "tree", "deltas"}

AtticError(pathname) == [kind |-> "both in and out of Attic", path |-> pathname]
InvalidError(pathname) == [kind |-> "not a valid ,v file", path |-> pathname]
MultipleError(name, pathname) ==
  [kind |-> "Multiple definitions of the symbol", path |-> pathname, name |-> name]

\* The fatal errors process_file records before it runs the parser.
AtticCheck(pathname) ==
  IF ~InAttic(pathname) /\ AtticPath(pathname) \in Disk
  THEN <<AtticError(pathname)>>
  ELSE <<>>

\* process_file up to the call of the parser: the _FileDataCollector is
\* constructed and the Attic sibling looked for.
ProcessFile(pathname) ==
  /\ phase = "idle"
  /\ pathname \in Disk \ processed
  /\ processed' = processed \cup {pathname}
  /\ cvs_file' = [id |-> file_key_generator,
                  filename |-> pathname,
                  canonical_filename |-> CanonicalFilename(pathname),
                  in_attic |-> InAttic(pathname),
                  mode |-> "None",
                  default_branch |-> None]
  /\ file_key_generator' = file_key_generator + 1
  /\ rev_data' = EmptyDict
  /\ rev_order' = <<>>
  /\ primary_dependencies' = <<>>
  /\ default_branch' = None
  /\ first_non_vendor_revision_date' = <<>>
  /\ known_symbols' = {}
  /\ branches_data' = EmptyDict
  /\ tags_data' = EmptyDict
  /\ fatal_errors' = fatal_errors \o AtticCheck(pathname)
  /\ phase' = "admin"
  /\ UNCHANGED <<exc, cvs_revs_db, all_revs, resync, metadata_db, num_files,
                 symbol_db, key_generator, cvs_file_db, walk>>
  /\ UNCHANGED svnVars

\* (mutant) ValueError left out of the except clause
CaughtExceptions_NoValueError == {"RCSParseError", "RuntimeError"}

\* The exceptions process_file's first except clause names.
CaughtExceptions == {"RCSParseError", "ValueError", "RuntimeError"}

\* process_file's except clauses, entered with the exception exc: a
\* caught one is recorded and process_file returns; any other is re-raised
\* and ends the pass.
ExceptClauses ==
  /\ phase = "raised"
  /\ IF exc \in CaughtExceptions
     THEN /\ fatal_errors' = Append(fatal_errors, InvalidError(cvs_file.filename))
          /\ phase' = "idle"
     ELSE /\ fatal_errors' = fatal_errors
          /\ phase' = "crashed"
  /\ exc' = "None"
  /\ NoFdc
  /\ UNCHANGED <<processed, cvs_revs_db, all_revs, resync, metadata_db,
                 num_files, symbol_db, file_key_generator, key_generator,
                 cvs_file_db>>
  /\ UNCHANGED svnVars

\* cvs2svn_rcsparse.parse raises e between two callbacks.
ParserRaises(e) ==
  /\ phase \in Parsing
  /\ phase' = "raised"
  /\ exc' = e
  /\ UNCHANGED <<processed, collectVars, fdcVars, sdcVars, walk>>
  /\ UNCHANGED svnVars

\* ------------------------------------------------- the admin section's callbacks

set_principal_branch(branch) ==
  /\ phase = "admin"
  /\ default_branch' = branch
  /\ phase' = "expand"
  /\ UNCHANGED <<processed, exc, collectVars, cvs_file, rev_data, rev_order,
                 primary_dependencies, first_non_vendor_revision_date,
                 sdcVars, walk>>
  /\ UNCHANGED svnVars

set_expansion(mode) ==
  /\ phase \in {"admin", "expand"}
  /\ cvs_file' = [cvs_file EXCEPT !.mode = mode]
  /\ phase' = "symbols"
  /\ UNCHANGED <<processed, exc, collectVars, rev_data, rev_order,
                 primary_dependencies, default_branch,
                 first_non_vendor_revision_date, sdcVars, walk>>
  /\ UNCHANGED svnVars

\* _transform_symbol: every rule is applied once, in order, to the running name
RECURSIVE ApplyTransforms(_, _)
ApplyTransforms(rules, name) ==
  IF rules = <<>> THEN name
  ELSE ApplyTransforms(Tail(rules),
         IF name \in Head(rules).pattern THEN Head(rules).replacement ELSE name)

_transform_symbol(name) == ApplyTransforms(SymbolTransforms, name)

\* (mutant) a later name replaces the name a branch number has
_add_branch_LastName(bd, db, kg, name, branch_number) ==
  LET branch_data == [id |-> kg, name |-> name,
                      branch_number |-> branch_number,
                      parent |-> Front(branch_number),
                      child |-> IF branch_number \in DOMAIN bd
                                THEN bd[branch_number].child ELSE None]
  IN [branches_data |-> Put(bd, branch_number, branch_data),
      symbol_db |-> register_branch_creation(db, name),
      key_generator |-> kg + 1,
      branch_data |-> branch_data]

\* (mutant) the branch given the next key, and the key not used up
_add_branch_SameKey(bd, db, kg, name, branch_number) ==
  IF branch_number \in DOMAIN bd
  THEN [branches_data |-> bd, symbol_db |-> db, key_generator |-> kg,
        branch_data |-> bd[branch_number]]
  ELSE LET branch_data == [id |-> kg, name |-> name,
                           branch_number |-> branch_number,
                           parent |-> Front(branch_number),
                           child |-> None]
       IN [branches_data |-> Put(bd, branch_number, branch_data),
           symbol_db |-> register_branch_creation(db, name),
           key_generator |-> kg,
           branch_data |-> branch_data]

\* _add_branch, as [branches_data, symbol_db, key_generator, branch_data]
_add_branch(bd, db, kg, name, branch_number) ==
  IF branch_number \in DOMAIN bd
  THEN [branches_data |-> bd, symbol_db |-> db, key_generator |-> kg,
        branch_data |-> bd[branch_number]]
  ELSE LET branch_data == [id |-> kg, name |-> name,
                           branch_number |-> branch_number,
                           parent |-> Front(branch_number),
                           child |-> None]
       IN [branches_data |-> Put(bd, branch_number, branch_data),
           symbol_db |-> register_branch_creation(db, name),
           key_generator |-> kg + 1,
           branch_data |-> branch_data]

UnlabeledName(branch_number) == [label |-> "unlabeled-", num |-> branch_number]

\* (mutant) the synthesized name given to a branch that has one already
_add_unlabeled_branch_Always(bd, db, kg, branch_number) ==
  LET branch_data == [id |-> kg, name |-> UnlabeledName(branch_number),
                      branch_number |-> branch_number,
                      parent |-> Front(branch_number),
                      child |-> None]
  IN [branches_data |-> Put(bd, branch_number, branch_data),
      symbol_db |-> register_branch_creation(db, UnlabeledName(branch_number)),
      key_generator |-> kg + 1,
      branch_data |-> branch_data]

_add_unlabeled_branch(bd, db, kg, branch_number) ==
  _add_branch(bd, db, kg, UnlabeledName(branch_number), branch_number)

\* (mutant) no definition is taken for a second one
AlreadyDefined_Never(name, known) == FALSE

\* define_symbol's test: name in self._known_symbols
AlreadyDefined(name, known) == name \in known

\* define_tag(name, revision) = sdc.define_symbol(name, revision)
define_tag(rawname, revision) ==
  /\ phase \in {"admin", "expand", "symbols"}
  /\ phase' = "symbols"
  /\ LET name == Name(_transform_symbol(rawname))
         m == branch_tag_re(revision)
     IN IF AlreadyDefined(name, known_symbols)
        THEN /\ fatal_errors' = Append(fatal_errors,
                                  MultipleError(name, cvs_file.filename))
             /\ UNCHANGED <<known_symbols, branches_data, tags_data,
                            symbol_db, key_generator>>
        ELSE /\ known_symbols' = known_symbols \cup {name}
             /\ fatal_errors' = fatal_errors
             /\ IF m # <<>>
                THEN LET a == _add_branch(branches_data, symbol_db,
                                          key_generator, name, m[1])
                     IN /\ branches_data' = a.branches_data
                        /\ symbol_db' = a.symbol_db
                        /\ key_generator' = a.key_generator
                        /\ tags_data' = tags_data
                ELSE /\ tags_data' =
                          Put(tags_data, revision,
                              (IF revision \in DOMAIN tags_data
                               THEN tags_data[revision] ELSE <<>>)
                              \o <<[id |-> key_generator, name |-> name,
                                    rev |-> revision]>>)
                     /\ symbol_db' = register_tag_creation(symbol_db, name)
                     /\ key_generator' = key_generator + 1
                     /\ branches_data' = branches_data
  /\ UNCHANGED <<processed, exc, cvs_revs_db, all_revs, resync, metadata_db,
                 num_files, file_key_generator, cvs_file_db, fdcVars, walk>>
  /\ UNCHANGED svnVars

\* -------------------------------------------------------------- define_revision

\* define_revision's loop over branches, as [branches_data, symbol_db,
\* key_generator, exc]: exc names the exception that ended the loop, if any.
RECURSIVE AttachBranches(_, _, _, _)
AttachBranches(branches, bd, db, kg) ==
  IF branches = <<>>
  THEN [branches_data |-> bd, symbol_db |-> db, key_generator |-> kg,
        exc |-> "None"]
  ELSE LET branch == Head(branches) IN
       IF Len(branch) < 2
       THEN \* branch.rindex('.') finds no '.'
            [branches_data |-> bd, symbol_db |-> db, key_generator |-> kg,
             exc |-> "ValueError"]
       ELSE LET branch_number == Front(branch)
                a == _add_unlabeled_branch(bd, db, kg, branch_number)
            IN IF a.branch_data.child # None
               THEN \* assert branch_data.child is None
                    [branches_data |-> a.branches_data,
                     symbol_db |-> a.symbol_db,
                     key_generator |-> a.key_generator,
                     exc |-> "AssertionError"]
               ELSE AttachBranches(
                      Tail(branches),
                      [a.branches_data EXCEPT ![branch_number].child = branch],
                      a.symbol_db, a.key_generator)

\* _RevisionData.__init__
\* (branches_data: the branch numbers of the _BranchData objects listed)
_RevisionData(cvs_rev_id, rev, timestamp, author, state, branches) ==
  [cvs_rev_id |-> cvs_rev_id, c_rev |-> <<>>, rev |-> rev,
   timestamp |-> timestamp, author |-> author,
   original_timestamp |-> timestamp, adjusted |-> FALSE, state |-> state,
   branches_data |-> branches,
   parent |-> None, child |-> None, branch_numbers |-> <<>>]

\* (mutant) the timestamp changed and the change not noted
adjust_timestamp_Unnoted(self, timestamp) ==
  [self EXCEPT !.timestamp = timestamp]

\* _RevisionData.adjust_timestamp and timestamp_was_adjusted
adjust_timestamp(self, timestamp) ==
  [self EXCEPT !.timestamp = timestamp, !.adjusted = TRUE]

timestamp_was_adjusted(self) == self.adjusted

define_revision(revision, timestamp, author, state, branches, next) ==
  /\ phase \in {"admin", "expand", "symbols", "tree"}
  /\ LET a == AttachBranches(branches, branches_data, symbol_db, key_generator)
     IN /\ branches_data' = a.branches_data
        /\ symbol_db' = a.symbol_db
        /\ IF a.exc # "None"
           THEN /\ phase' = "raised"
                /\ exc' = a.exc
                /\ key_generator' = a.key_generator
                /\ UNCHANGED <<rev_data, rev_order, primary_dependencies>>
           ELSE /\ phase' = "tree"
                /\ exc' = exc
                /\ rev_data' = Put(rev_data, revision,
                                   _RevisionData(a.key_generator, revision,
                                                 timestamp, author, state,
                                                 [i \in DOMAIN branches |->
                                                    Front(branches[i])]))
                /\ key_generator' = a.key_generator + 1
                /\ rev_order' = Append(rev_order, revision)
                /\ primary_dependencies' =
                     IF next = None THEN primary_dependencies
                     ELSE IF is_trunk_revision(revision)
                          THEN Append(primary_dependencies, <<next, revision>>)
                          ELSE Append(primary_dependencies, <<revision, next>>)
  /\ UNCHANGED <<processed, cvs_revs_db, all_revs, resync, metadata_db,
                 fatal_errors, num_files, file_key_generator, cvs_file_db,
                 cvs_file, default_branch, first_non_vendor_revision_date,
                 known_symbols, tags_data, walk>>
  /\ UNCHANGED svnVars

\* --------------------------------------------------------------- tree_completed

\* register_commit, as [symbol_db, exc]
register_commit(bd, db, rev) ==
  IF is_branch_revision(rev)
  THEN IF Front(rev) \in DOMAIN bd
       THEN [symbol_db |-> register_branch_commit(db, bd[Front(rev)].name),
             exc |-> "None"]
       ELSE [symbol_db |-> db, exc |-> "KeyError"]
  ELSE [symbol_db |-> db, exc |-> "None"]

\* "not self.first_non_vendor_revision_date": None and 0 are both false
NoDate(d) == d = <<>> \/ d = <<0>>

\* (mutant) without the comparison of the numbers of components
_update_default_branch_Prefix(principal, head, date, rev, timestamp) ==
  IF principal # None
  THEN IF Len(rev) > Len(principal) /\ SubSeq(rev, 1, Len(principal)) = principal
       THEN [head |-> rev, date |-> date]
       ELSE [head |-> head, date |-> date]
  ELSE IF rev = <<1, 2>>
       THEN [head |-> head, date |-> <<timestamp>>]
       ELSE IF vendor_revision(rev) /\ (NoDate(date) \/ timestamp < date[1])
            THEN [head |-> rev, date |-> date]
            ELSE [head |-> head, date |-> date]

\* (mutant) a vendor revision as old as 1.2 taken for one before it
_update_default_branch_Ties(principal, head, date, rev, timestamp) ==
  IF principal # None
  THEN IF Len(rev) = Len(principal) + 1 /\ SubSeq(rev, 1, Len(principal)) = principal
       THEN [head |-> rev, date |-> date]
       ELSE [head |-> head, date |-> date]
  ELSE IF rev = <<1, 2>>
       THEN [head |-> head, date |-> <<timestamp>>]
       ELSE IF vendor_revision(rev) /\ (NoDate(date) \/ timestamp <= date[1])
            THEN [head |-> rev, date |-> date]
            ELSE [head |-> head, date |-> date]

\* (mutant) a vendor revision becomes the head only while there is none
_update_default_branch_First(principal, head, date, rev, timestamp) ==
  IF principal # None
  THEN IF Len(rev) = Len(principal) + 1 /\ SubSeq(rev, 1, Len(principal)) = principal
       THEN [head |-> rev, date |-> date]
       ELSE [head |-> head, date |-> date]
  ELSE IF rev = <<1, 2>>
       THEN [head |-> head, date |-> <<timestamp>>]
       ELSE IF vendor_revision(rev) /\ head = None
               /\ (NoDate(date) \/ timestamp < date[1])
            THEN [head |-> rev, date |-> date]
            ELSE [head |-> head, date |-> date]

\* _update_default_branch, as [head, date]: head is cvs_file.default_branch
\* and date is first_non_vendor_revision_date
_update_default_branch(principal, head, date, rev, timestamp) ==
  IF principal # None
  THEN IF Len(rev) = Len(principal) + 1 /\ SubSeq(rev, 1, Len(principal)) = principal
       THEN [head |-> rev, date |-> date]
       ELSE [head |-> head, date |-> date]
  ELSE IF rev = <<1, 2>>
       THEN [head |-> head, date |-> <<timestamp>>]
       ELSE IF vendor_revision(rev) /\ (NoDate(date) \/ timestamp < date[1])
            THEN [head |-> rev, date |-> date]
            ELSE [head |-> head, date |-> date]

\* tree_completed's first loop over _rev_order, as [symbol_db, head, date, exc]
RECURSIVE RegisterAll(_, _, _, _)
RegisterAll(order, db, head, date) ==
  IF order = <<>>
  THEN [symbol_db |-> db, head |-> head, date |-> date, exc |-> "None"]
  ELSE LET rev == Head(order)
           c == register_commit(branches_data, db, rev)
           u == _update_default_branch(default_branch, head, date, rev,
                                       rev_data[rev].timestamp)
       IN IF c.exc # "None"
          THEN [symbol_db |-> c.symbol_db, head |-> head, date |-> date,
                exc |-> c.exc]
          ELSE RegisterAll(Tail(order), c.symbol_db, u.head, u.date)

\* (mutant) the loop without "child_data.parent = parent"
RECURSIVE ResolvePrimary_ChildOnly(_, _)
ResolvePrimary_ChildOnly(deps, rd) ==
  IF deps = <<>> THEN [rev_data |-> rd, exc |-> "None"]
  ELSE LET parent == Head(deps)[1]
           child == Head(deps)[2]
       IN IF parent \notin DOMAIN rd THEN [rev_data |-> rd, exc |-> "KeyError"]
          ELSE IF rd[parent].child # None
          THEN [rev_data |-> rd, exc |-> "AssertionError"]
          ELSE IF child \notin DOMAIN rd
          THEN [rev_data |-> rd, exc |-> "KeyError"]
          ELSE ResolvePrimary_ChildOnly(Tail(deps),
                                        [rd EXCEPT ![parent].child = child])

\* _resolve_dependencies' loop over _primary_dependencies, as [rev_data, exc]
RECURSIVE ResolvePrimary(_, _)
ResolvePrimary(deps, rd) ==
  IF deps = <<>> THEN [rev_data |-> rd, exc |-> "None"]
  ELSE LET parent == Head(deps)[1]
           child == Head(deps)[2]
       IN IF parent \notin DOMAIN rd THEN [rev_data |-> rd, exc |-> "KeyError"]
          ELSE IF rd[parent].child # None
          THEN [rev_data |-> rd, exc |-> "AssertionError"]
          ELSE LET rd1 == [rd EXCEPT ![parent].child = child] IN
               IF child \notin DOMAIN rd1
               THEN [rev_data |-> rd1, exc |-> "KeyError"]
               ELSE IF rd1[child].parent # None
               THEN [rev_data |-> rd1, exc |-> "AssertionError"]
               ELSE ResolvePrimary(Tail(deps),
                                   [rd1 EXCEPT ![child].parent = parent])

\* (mutant) only the branches with a commit are noted at their parent
RECURSIVE ResolveBranches_WithCommits(_, _)
ResolveBranches_WithCommits(order, rd) ==
  IF order = <<>> THEN [rev_data |-> rd, exc |-> "None"]
  ELSE LET branch_data == branches_data[Head(order)] IN
       IF branch_data.parent \notin DOMAIN rd
       THEN [rev_data |-> rd, exc |-> "KeyError"]
       ELSE IF branch_data.child = None
       THEN ResolveBranches_WithCommits(Tail(order), rd)
       ELSE IF branch_data.child \notin DOMAIN rd
       THEN [rev_data |-> rd, exc |-> "KeyError"]
       ELSE IF rd[branch_data.child].parent # None
       THEN [rev_data |-> rd, exc |-> "AssertionError"]
       ELSE ResolveBranches_WithCommits(
              Tail(order),
              [rd EXCEPT ![branch_data.parent].branch_numbers =
                            Append(@, branch_data.branch_number),
                         ![branch_data.child].parent = branch_data.parent])

\* _resolve_dependencies' loop over branches_data.values(), taken in the
\* order the dict gives them, as [rev_data, exc]
RECURSIVE ResolveBranches(_, _)
ResolveBranches(order, rd) ==
  IF order = <<>> THEN [rev_data |-> rd, exc |-> "None"]
  ELSE LET branch_data == branches_data[Head(order)] IN
       IF branch_data.parent \notin DOMAIN rd
       THEN [rev_data |-> rd, exc |-> "KeyError"]
       ELSE LET rd1 == [rd EXCEPT ![branch_data.parent].branch_numbers =
                                     Append(@, branch_data.branch_number)]
            IN IF branch_data.child = None
               THEN ResolveBranches(Tail(order), rd1)
               ELSE IF branch_data.child \notin DOMAIN rd1
               THEN [rev_data |-> rd1, exc |-> "KeyError"]
               ELSE IF rd1[branch_data.child].parent # None
               THEN [rev_data |-> rd1, exc |-> "AssertionError"]
               ELSE ResolveBranches(
                      Tail(order),
                      [rd1 EXCEPT ![branch_data.child].parent = branch_data.parent])

\* The orders in which a dict may give the keys S
Orderings(S) ==
  {s \in [1..Cardinality(S) -> S] : \A i, j \in DOMAIN s : s[i] = s[j] => i = j}

_resolve_dependencies(order) ==
  LET p == ResolvePrimary(primary_dependencies, rev_data) IN
  IF p.exc # "None" THEN p ELSE ResolveBranches(order, p.rev_data)

\* tree_completed up to its resync loop
tree_completed ==
  /\ phase \in {"admin", "expand", "symbols", "tree"}
  /\ \E order \in Orderings(DOMAIN branches_data) :
       LET g == RegisterAll(rev_order, symbol_db, cvs_file.default_branch,
                            first_non_vendor_revision_date)
           d == _resolve_dependencies(order)
       IN /\ symbol_db' = g.symbol_db
          /\ cvs_file' = [cvs_file EXCEPT !.default_branch = g.head]
          /\ first_non_vendor_revision_date' = g.date
          /\ IF g.exc # "None"
             THEN /\ phase' = "raised"
                  /\ exc' = g.exc
                  /\ rev_data' = rev_data
             ELSE /\ rev_data' = d.rev_data
                  /\ IF d.exc # "None"
                     THEN phase' = "raised" /\ exc' = d.exc
                     ELSE phase' = "resync" /\ exc' = exc
  /\ walk' = <<>>
  /\ UNCHANGED <<processed, cvs_revs_db, all_revs, resync, metadata_db,
                 fatal_errors, num_files, file_key_generator, key_generator,
                 cvs_file_db, rev_order, primary_dependencies, default_branch,
                 sdcVars>>
  /\ UNCHANGED svnVars

\* (mutant) the test taken as "<=": equal timestamps are left alone
NoResyncNeeded_OrEqual(prev_timestamp, timestamp) == prev_timestamp <= timestamp

\* _resync_chain's test "prev_rev_data.timestamp < rev_data.timestamp"
NoResyncNeeded(prev_timestamp, timestamp) == prev_timestamp < timestamp

\* _resync_chain(rev_data[r]) would resync something
ChainNeedsResync(r) ==
  /\ rev_data[r].parent # None
  /\ ~NoResyncNeeded(rev_data[rev_data[r].parent].timestamp,
                     rev_data[r].timestamp)

\* (mutant) the previous revision moved halfway back to the epoch
ResyncedTimestamp_Half(timestamp) == timestamp \div 2

\* (mutant) the previous revision moved two seconds before
ResyncedTimestamp_ByTwo(timestamp) == timestamp - 2

\* The timestamp _resync_chain gives the previous revision
ResyncedTimestamp(timestamp) == timestamp - 1

\* tree_completed's scan: the for loop runs to the first revision whose
\* chain needs resyncing (_rev_data.values() gives them in the dict's
\* order), or to its end, and then tree_completed returns.
ResyncScan ==
  /\ phase = "resync"
  /\ walk = <<>>
  /\ IF \A r \in DOMAIN rev_data : ~ChainNeedsResync(r)
     THEN phase' = "deltas" /\ walk' = walk
     ELSE /\ phase' = phase
          /\ \E r \in DOMAIN rev_data : ChainNeedsResync(r) /\ walk' = <<r>>
  /\ UNCHANGED <<processed, exc, collectVars, fdcVars, sdcVars>>
  /\ UNCHANGED svnVars

\* config.COMMIT_THRESHOLD, in the seconds of the model's timestamps
COMMIT_THRESHOLD == 1

\* (mutant) the change compared without abs()
SignificantChange_Signed(delta) == delta > COMMIT_THRESHOLD

\* _resync_chain's test "abs(delta) > config.COMMIT_THRESHOLD"
SignificantChange(delta) ==
  (IF delta < 0 THEN -delta ELSE delta) > COMMIT_THRESHOLD

\* The warning of _resync_chain; cvs_path is the file's pathname in the
\* repository
SignificantChangeWarning(cvs_path, delta) ==
  <<"Significant timestamp change", cvs_path, delta>>

\* Log().warn as _resync_chain calls it after the previous revision's
\* timestamp went from old_timestamp to timestamp
ResyncWarnings(log, cvs_path, old_timestamp, timestamp) ==
  IF SignificantChange(timestamp - old_timestamp)
  THEN Append(log, SignificantChangeWarning(cvs_path, timestamp - old_timestamp))
  ELSE log

\* (mutant) the revision moved after its previous revision, forwards
ResyncChain_Forward ==
  /\ phase = "resync"
  /\ walk # <<>>
  /\ LET r == walk[1]
         p == rev_data[r].parent
     IN IF p = None \/ NoResyncNeeded(rev_data[p].timestamp, rev_data[r].timestamp)
        THEN /\ walk' = <<>>
             /\ rev_data' = rev_data
             /\ log_warn' = log_warn
        ELSE /\ rev_data' = [rev_data EXCEPT
                  ![r] = adjust_timestamp(@, rev_data[p].timestamp + 1)]
             /\ log_warn' = ResyncWarnings(log_warn, cvs_file.canonical_filename,
                                           rev_data[r].timestamp,
                                           rev_data[p].timestamp + 1)
             /\ walk' = <<>>
  /\ UNCHANGED <<processed, phase, exc, collectVars, cvs_file, rev_order,
                 primary_dependencies, default_branch,
                 first_non_vendor_revision_date, sdcVars>>
  /\ UNCHANGED <<SVNCommit_revnum, commits, trunk_only, commit_exc, revprops>>

\* One turn of _resync_chain's while loop, rev_data being walk[1].
ResyncChain ==
  /\ phase = "resync"
  /\ walk # <<>>
  /\ LET r == walk[1]
         p == rev_data[r].parent
     IN IF p = None \/ NoResyncNeeded(rev_data[p].timestamp, rev_data[r].timestamp)
        THEN /\ walk' = <<>>
             /\ rev_data' = rev_data
             /\ log_warn' = log_warn
        ELSE /\ ResyncedTimestamp(rev_data[r].timestamp) >= TimeFloor
             /\ rev_data' = [rev_data EXCEPT
                  ![p] = adjust_timestamp(
                           @, ResyncedTimestamp(rev_data[r].timestamp))]
             /\ log_warn' = ResyncWarnings(log_warn, cvs_file.canonical_filename,
                                           rev_data[p].timestamp,
                                           ResyncedTimestamp(rev_data[r].timestamp))
             /\ walk' = <<p>>
  /\ UNCHANGED <<processed, phase, exc, collectVars, cvs_file, rev_order,
                 primary_dependencies, default_branch,
                 first_non_vendor_revision_date, sdcVars>>
  /\ UNCHANGED <<SVNCommit_revnum, commits, trunk_only, commit_exc, revprops>>

\* ------------------------------------------------------------ set_revision_info

\* The while loop of _determine_operation (issue #89), entered with op
RECURSIVE UpgradeToChange(_, _, _)
UpgradeToChange(rd, cur_num, op) ==
  LET prev_num == rd[cur_num].parent IN
  IF cur_num = None \/ prev_num = None THEN op
  ELSE UpgradeToChange(
         rd, prev_num,
         IF /\ ~is_same_line_of_development(cur_num, prev_num)
            /\ rd[cur_num].state = "dead"
            /\ rd[prev_num].state # "dead"
         THEN "OP_CHANGE" ELSE op)

\* (mutant) the test for an add made before the test for a delete
BasicOperation_AddFirst(state, parent_state) ==
  IF parent_state = <<>> \/ parent_state[1] = "dead" THEN "OP_ADD"
  ELSE IF state = "dead" THEN "OP_DELETE"
  ELSE "OP_CHANGE"

\* (mutant) an add after a live parent, a change after a dead one
BasicOperation_LiveParent(state, parent_state) ==
  IF state = "dead" THEN "OP_DELETE"
  ELSE IF parent_state = <<>> \/ parent_state[1] # "dead" THEN "OP_ADD"
  ELSE "OP_CHANGE"

\* The first classification of _determine_operation; parent_state is <<>>
\* when _rev_data.get(rev_data.parent) is None
BasicOperation(state, parent_state) ==
  IF state = "dead" THEN "OP_DELETE"
  ELSE IF parent_state = <<>> \/ parent_state[1] = "dead" THEN "OP_ADD"
  ELSE "OP_CHANGE"

\* (mutant) without the loop of issue #89
_determine_operation_Basic(rd, rev) ==
  LET parent == rd[rev].parent
  IN BasicOperation(rd[rev].state,
                    IF parent \in DOMAIN rd THEN <<rd[parent].state>> ELSE <<>>)

_determine_operation(rd, rev) ==
  LET parent == rd[rev].parent
      op == BasicOperation(rd[rev].state,
                           IF parent \in DOMAIN rd THEN <<rd[parent].state>>
                           ELSE <<>>)
  IN IF is_branch_revision(rev) /\ rd[rev].state # "dead"
     THEN UpgradeToChange(rd, rev, op)
     ELSE op

\* (mutant) the revisions with a parent as long as they are taken for first
_is_first_on_branch_SameLength(rd, rev) ==
  IF rd[rev].parent = None THEN TRUE
  ELSE Len(rev) = Len(rd[rev].parent)

_is_first_on_branch(rd, rev) ==
  IF rd[rev].parent = None THEN TRUE
  ELSE Len(rev) # Len(rd[rev].parent)

\* _get_rev_id; the id None is 0
_get_rev_id(rd, revision) ==
  IF revision = None THEN 0 ELSE rd[revision].cvs_rev_id

\* sha.new(log + '\0' + author).hexdigest(), taken to be free of collisions
Digest(log, author) == <<log, author>>

\* sdc.rev_to_branch_data: <<>> for None
rev_to_branch_data(bd, revision) ==
  IF is_trunk_revision(revision) THEN <<>>
  ELSE IF Front(revision) \in DOMAIN bd THEN <<bd[Front(revision)]>> ELSE <<>>

\* The CVSRevision set_revision_info builds; lod <<>> is Trunk(), <<name>>
\* is Branch(name)
MakeCVSRevision(revision, log, text) ==
  LET r == rev_data[revision] IN
  [id |-> _get_rev_id(rev_data, revision),
   cvs_file |-> [id |-> cvs_file.id, filename |-> cvs_file.filename],
   timestamp |-> r.timestamp,
   digest |-> Digest(log, r.author),
   prev_id |-> _get_rev_id(rev_data, r.parent),
   next_id |-> _get_rev_id(rev_data, r.child),
   op |-> _determine_operation(rev_data, revision),
   rev |-> revision,
   deltatext_exists |-> text # "",
   lod |-> IF is_branch_revision(revision)
           THEN <<rev_to_branch_data(branches_data, revision)[1].name>>
           ELSE <<>>,
   first_on_branch |-> _is_first_on_branch(rev_data, revision),
   tag_names |-> IF revision \in DOMAIN tags_data
                 THEN [i \in DOMAIN tags_data[revision] |->
                         tags_data[revision][i].name]
                 ELSE <<>>,
   branch_names |-> [i \in DOMAIN r.branch_numbers |->
                       branches_data[r.branch_numbers[i]].name]]

\* (mutant) the head of a declared principal branch is not cleared
ClearsDefaultBranch_Inferred(revision, log) ==
  revision = <<1, 1>> /\ log # InitialRevisionLog /\ default_branch = None

\* (mutant) the test made on revision 1.2
ClearsDefaultBranch_On12(revision, log) ==
  revision = <<1, 2>> /\ log # InitialRevisionLog

\* set_revision_info's test for a 1.1 made by 'cvs add', not 'cvs import'
ClearsDefaultBranch(revision, log) ==
  revision = <<1, 1>> /\ log # InitialRevisionLog

set_revision_info(revision, log, text) ==
  /\ phase = "deltas"
  /\ revision \in DOMAIN rev_data
  /\ rev_data[revision].c_rev = <<>>
  /\ LET r == rev_data[revision]
         c_rev == MakeCVSRevision(revision, log, text)
     IN /\ resync' = IF timestamp_was_adjusted(r)
                     THEN Append(resync, <<r.original_timestamp, c_rev.digest,
                                           r.timestamp>>)
                     ELSE resync
        /\ cvs_file' = IF ClearsDefaultBranch(revision, log)
                       THEN [cvs_file EXCEPT !.default_branch = None]
                       ELSE cvs_file
        /\ rev_data' = [rev_data EXCEPT ![revision].c_rev = <<c_rev.id>>]
        \* add_cvs_revision
        /\ cvs_revs_db' = Put(cvs_revs_db, c_rev.id, c_rev)
        /\ all_revs' = Append(all_revs, c_rev.id)
        /\ metadata_db' = IF c_rev.digest \in DOMAIN metadata_db
                          THEN metadata_db
                          ELSE Put(metadata_db, c_rev.digest, <<r.author, log>>)
  /\ UNCHANGED <<processed, phase, exc, fatal_errors, num_files, symbol_db,
                 file_key_generator, key_generator, cvs_file_db, rev_order,
                 primary_dependencies, default_branch,
                 first_non_vendor_revision_date, sdcVars, walk>>
  /\ UNCHANGED svnVars

\* -------------------------------------------------------------- parse_completed

\* register_branch_blockers' first loop: the tagged branch revisions, the
\* ones whose branch is unknown (branch_data_parent is None), and the
\* blockers a revision's tags register
TaggedBranchRevisions == {revision \in DOMAIN tags_data : is_branch_revision(revision)}

UnownedTagRevisions ==
  {revision \in TaggedBranchRevisions :
     rev_to_branch_data(branches_data, revision) = <<>>}

TagBlockers(revision) ==
  {<<rev_to_branch_data(branches_data, revision)[1].name,
     tags_data[revision][i].name>> : i \in DOMAIN tags_data[revision]}

\* register_branch_blockers' second loop: the branches that sprout from a
\* branch revision, the ones whose parent's branch is unknown, and the
\* blocker a branch registers
SubBranches ==
  {b \in DOMAIN branches_data : is_branch_revision(branches_data[b].parent)}

UnownedSubBranches ==
  {b \in SubBranches :
     rev_to_branch_data(branches_data, branches_data[b].parent) = <<>>}

BranchBlocker(b) ==
  <<rev_to_branch_data(branches_data, branches_data[b].parent)[1].name,
    branches_data[b].name>>

\* (mutant) the loop over the tags only
register_branch_blockers_Tags(db) ==
  {[symbol_db |-> [db EXCEPT !.blockers =
                     @ \cup UNION {TagBlockers(revision) :
                                     revision \in TaggedBranchRevisions
                                                  \ UnownedTagRevisions}],
    exc |-> IF UnownedTagRevisions # {} THEN "AttributeError" ELSE "None"]}

\* register_branch_blockers, as the set of [symbol_db, exc] it may end in:
\* one when every owner is known; else it raises AttributeError at the
\* first unowned item the dict gives, the owned items before it registered.
register_branch_blockers(db) ==
  LET tagged(revs) == UNION {TagBlockers(revision) : revision \in revs}
      all_tags == tagged(TaggedBranchRevisions)
  IN IF UnownedTagRevisions # {}
     THEN {[symbol_db |-> [db EXCEPT !.blockers = @ \cup tagged(done)],
            exc |-> "AttributeError"] :
           done \in SUBSET (TaggedBranchRevisions \ UnownedTagRevisions)}
     ELSE IF UnownedSubBranches # {}
     THEN {[symbol_db |-> [db EXCEPT !.blockers =
                             @ \cup all_tags \cup {BranchBlocker(b) : b \in done}],
            exc |-> "AttributeError"] :
           done \in SUBSET (SubBranches \ UnownedSubBranches)}
     ELSE {[symbol_db |-> [db EXCEPT !.blockers =
                             @ \cup all_tags
                               \cup {BranchBlocker(b) : b \in SubBranches}],
            exc |-> "None"]}

\* parse_completed with the file counted before the blockers are registered
parse_completed_CountedFirst ==
  /\ phase = "deltas"
  /\ cvs_file_db' = Put(cvs_file_db, cvs_file.id, cvs_file)
  /\ num_files' = num_files + 1
  /\ \E b \in register_branch_blockers(symbol_db) :
       /\ symbol_db' = b.symbol_db
       /\ IF b.exc # "None"
          THEN /\ phase' = "raised"
               /\ exc' = b.exc
               /\ UNCHANGED <<fdcVars, sdcVars, walk>>
          ELSE /\ phase' = "idle"
               /\ exc' = exc
               /\ NoFdc
  /\ UNCHANGED <<processed, cvs_revs_db, all_revs, resync, metadata_db,
                 fatal_errors, file_key_generator, key_generator>>
  /\ UNCHANGED svnVars

\* parse_completed, after which parse and process_file return
parse_completed ==
  /\ phase = "deltas"
  \* add_cvs_file
  /\ cvs_file_db' = Put(cvs_file_db, cvs_file.id, cvs_file)
  /\ \E b \in register_branch_blockers(symbol_db) :
       /\ symbol_db' = b.symbol_db
       /\ IF b.exc # "None"
          THEN /\ phase' = "raised"
               /\ exc' = b.exc
               /\ num_files' = num_files
               /\ UNCHANGED <<fdcVars, sdcVars, walk>>
          ELSE /\ phase' = "idle"
               /\ exc' = exc
               /\ num_files' = num_files + 1
               /\ NoFdc
  /\ UNCHANGED <<processed, cvs_revs_db, all_revs, resync, metadata_db,
                 fatal_errors, file_key_generator, key_generator>>
  /\ UNCHANGED svnVars

\* ------------------------------------------------------------------ the pass

\* The define_tag callbacks made for the running file
SymbolsDefined ==
  Cardinality(known_symbols)
  + Cardinality({i \in DOMAIN fatal_errors :
                   /\ fatal_errors[i].kind = "Multiple definitions of the symbol"
                   /\ fatal_errors[i].path = cvs_file.filename})

\* The revisions set_revision_info has been called for
Emitted == {r \in DOMAIN rev_data : rev_data[r].c_rev # <<>>}

\* define_revision's arguments
RevisionDef(revision, timestamp, state, branches, next) ==
  [revision |-> revision, timestamp |-> timestamp, author |-> "jrandom",
   state |-> state, branches |-> branches, next |-> next]

\* The place of x in the sequence s (0 when it is not there)
IndexOf(s, x) == IF x \in Range(s) THEN CHOOSE i \in DOMAIN s : s[i] = x ELSE 0

\* The pass over the inputs D: process_file is called with the pathnames
\* D.paths in their order (the traversal of the repository) and, for each
\* file, the parser makes its callbacks in the order of its protocol, each
\* revision defined once and given its log and text once.  D.define_order
\* and D.delta_order, when not empty, are the orders in which the archive
\* lists its revisions and their logs and texts: the callbacks then come in
\* these orders; when empty, in any order.
NextOver(D) ==
  \/ /\ Cardinality(processed) < Len(D.paths)
     /\ ProcessFile(D.paths[Cardinality(processed) + 1])
  \/ \E branch \in D.principals : set_principal_branch(branch)
  \/ \E mode \in D.modes : set_expansion(mode)
  \/ \E y \in D.symbols :
       SymbolsDefined < MaxSymbols /\ define_tag(y[1], y[2])
  \/ \E d \in D.revisions :
       /\ Len(rev_order) < MaxRevisions
       /\ d.revision \notin DOMAIN rev_data
       /\ D.define_order # <<>> =>
            \A r \in DOMAIN rev_data :
              IndexOf(D.define_order, r) < IndexOf(D.define_order, d.revision)
       /\ define_revision(d.revision, d.timestamp, d.author, d.state,
                          d.branches, d.next)
  \/ tree_completed
  \/ ResyncScan
  \/ ResyncChain
  \/ \E revision \in (DOMAIN rev_data) \ Emitted, i \in D.infos :
       /\ D.delta_order # <<>> =>
            \A r \in (DOMAIN rev_data) \ Emitted :
              IndexOf(D.delta_order, revision) <= IndexOf(D.delta_order, r)
       /\ set_revision_info(revision, i.log, i.text)
  \/ parse_completed
  \/ \E e \in D.raises : ParserRaises(e)
  \/ ExceptClauses

\* The revisions of the archives, in the order an archive lists them
R11 == <<1, 1>>
R12 == <<1, 2>>
R13 == <<1, 3>>
R1111 == <<1, 1, 1, 1>>
R1112 == <<1, 1, 1, 2>>
R1321 == <<1, 3, 2, 1>>
R1322 == <<1, 3, 2, 2>>
R1323 == <<1, 3, 2, 3>>
FileOrder == <<R13, R12, R11, R1111, R1112, R1321, R1322, R1323>>

\* ---- the collector's pass: several files, few revisions

CollectInputs ==
  [paths |-> <<Path(<<"proj">>, "b,v"), Path(<<"proj", "Attic">>, "b,v")>>,
   principals |-> {<<1, 1, 1>>},
   modes |-> {"b"},
   symbols |-> {<<"T", R11>>, <<"B", <<1, 1, 0, 2>> >>},
   revisions |-> {RevisionDef(R12, 5, "Exp", <<>>, R11),
                  RevisionDef(R11, 5, "Exp", <<>>, None)},
   define_order |-> FileOrder,
   delta_order |-> FileOrder,
   infos |-> {[log |-> "Initial revision\n", text |-> "text"]},
   raises |-> {"RCSParseError", "ValueError", "IOError"}]

Next == NextOver(CollectInputs)

Spec == Init /\ [][Next]_vars

\* ---- one file: the revision tree and its timestamps

Times == {5, 6}

ResyncInputs ==
  [paths |-> <<Path(<<"proj">>, "a,v")>>,
   principals |-> {<<1, 1, 1>>},
   modes |-> {"b"},
   symbols |-> {<<"B", <<1, 1, 1>> >>},
   revisions |->
     {RevisionDef(R13, t, "Exp", <<>>, R12) : t \in Times}
     \cup {RevisionDef(R12, t, "Exp", <<>>, n) : t \in Times, n \in {None, R11}}
     \cup {RevisionDef(R11, t, "Exp", b, n) :
             t \in Times, b \in {<<>>, <<R1111>>}, n \in {None, R12}}
     \cup {RevisionDef(R1111, t, "Exp", <<>>, n) : t \in Times, n \in {None, R1112}}
     \cup {RevisionDef(R1112, t, "Exp", <<>>, None) : t \in Times},
   define_order |-> FileOrder,
   delta_order |-> FileOrder,
   infos |-> {[log |-> "Initial revision\n", text |-> "text"]},
   raises |-> {"RCSParseError"}]

NextResync == NextOver(ResyncInputs)

SpecResync == Init /\ [][NextResync]_vars

\* ---- one file: the states of the revisions of a trunk and a branch

States == {"Exp", "dead"}

OperationInputs ==
  [paths |-> <<Path(<<"proj">>, "a,v")>>,
   principals |-> {<<1, 3, 2>>},
   modes |-> {"b"},
   symbols |-> {<<"B", <<1, 3, 0, 2>> >>},
   revisions |->
     {RevisionDef(R13, 5, s, b, R12) : s \in States, b \in {<<>>, <<R1321>>}}
     \cup {RevisionDef(R12, 5, s, <<>>, None) : s \in States}
     \cup {RevisionDef(R1321, 5, s, <<>>, n) : s \in States, n \in {None, R1322}}
     \cup {RevisionDef(R1322, 5, s, <<>>, n) : s \in States, n \in {None, R1323}}
     \cup {RevisionDef(R1323, 5, s, <<>>, None) : s \in States},
   define_order |-> FileOrder,
   delta_order |-> FileOrder,
   infos |-> {[log |-> "Initial revision\n", text |-> "text"]},
   raises |-> {"RCSParseError"}]

NextOperation == NextOver(OperationInputs)

SpecOperation == Init /\ [][NextOperation]_vars

\* ---- one file: an import, its vendor branch and the default branch

DefaultBranchInputs ==
  [paths |-> <<Path(<<"proj">>, "a,v")>>,
   principals |-> {<<1, 1, 1>>},
   modes |-> {"b"},
   symbols |-> {<<"B", <<1, 1, 1>> >>},
   revisions |->
     {RevisionDef(R12, t, "Exp", <<>>, R11) : t \in Times}
     \cup {RevisionDef(R11, 5, "Exp", <<R1111>>, None)}
     \cup {RevisionDef(R1111, t, "Exp", <<>>, R1112) : t \in Times}
     \cup {RevisionDef(R1112, t, "Exp", <<>>, None) : t \in Times},
   define_order |-> <<>>,
   delta_order |-> FileOrder,
   infos |-> {[log |-> "Initial revision\n", text |-> "text"],
              [log |-> "Merged foo\n", text |-> "text"]},
   raises |-> {"RCSParseError"}]

NextDefaultBranch == NextOver(DefaultBranchInputs)

SpecDefaultBranch == Init /\ [][NextDefaultBranch]_vars

\* ---- one file: its symbols and the branches its revisions list

R111121 == <<1, 1, 1, 1, 2, 1>>

SymbolInputs ==
  [paths |-> << Path(<<"proj">>, "a,v") >>,
   principals |-> {<<1, 1, 1>>},
   modes |-> {"b"},
   symbols |-> {<<"T", R11>>, <<"T2", R1111>>,
                <<"B", <<1, 1, 1>> >>, <<"C", <<1, 1, 0, 1>> >>,
                <<"D", <<1, 1, 1, 1, 0, 2>> >>},
   revisions |->
     {RevisionDef(R11, 5, "Exp", b, None) : b \in {<<>>, <<R1111>>}}
     \cup {RevisionDef(R1111, 5, "Exp", b, None) : b \in {<<>>, <<R111121>>}}
     \cup {RevisionDef(R111121, 5, "Exp", <<>>, None)},
   define_order |-> <<R11, R1111, R111121>>,
   delta_order |-> <<R11, R1111, R111121>>,
   infos |-> {[log |-> "Initial revision\n", text |-> "text"]},
   raises |-> {"RCSParseError"}]

NextSymbols == NextOver(SymbolInputs)

SpecSymbols == Init /\ [][NextSymbols]_vars

\* ---- one file: a declared principal branch, the vendor branch and a
\* branch that sprouts from it

PrincipalBranchInputs ==
  [paths |-> << Path(<<"proj">>, "a,v") >>,
   principals |-> {<<1, 1, 1>>, <<1, 1, 1, 1, 2>>},
   modes |-> {"b"},
   symbols |-> {<<"B", <<1, 1, 1>> >>},
   revisions |->
     {RevisionDef(R11, 5, "Exp", <<R1111>>, None)}
     \cup {RevisionDef(R1111, 5, "Exp", b, n) :
             b \in {<<>>, <<R111121>>}, n \in {None, R1112}}
     \cup {RevisionDef(R1112, 5, "Exp", <<>>, None),
           RevisionDef(R111121, 5, "Exp", <<>>, None)},
   define_order |-> <<>>,
   delta_order |-> <<R11, R1111, R1112, R111121>>,
   infos |-> {[log |-> "Initial revision\n", text |-> "text"]},
   raises |-> {"RCSParseError"}]

NextPrincipalBranch == NextOver(PrincipalBranchInputs)

SpecPrincipalBranch == Init /\ [][NextPrincipalBranch]_vars

\* ---- one file: 1.1 and a branch on which the file is removed and added

R1121 == <<1, 1, 2, 1>>
R1122 == <<1, 1, 2, 2>>
R1123 == <<1, 1, 2, 3>>
R1124 == <<1, 1, 2, 4>>
BranchOrder == <<R11, R1121, R1122, R1123, R1124>>

ReAddInputs ==
  [paths |-> << Path(<<"proj">>, "a,v") >>,
   principals |-> {<<1, 1, 2>>},
   modes |-> {"b"},
   symbols |-> {<<"B", <<1, 1, 0, 2>> >>},
   revisions |->
     {RevisionDef(R11, 5, s, <<R1121>>, None) : s \in States}
     \cup {RevisionDef(R1121, 5, s, <<>>, R1122) : s \in States}
     \cup {RevisionDef(R1122, 5, s, <<>>, R1123) : s \in States}
     \cup {RevisionDef(R1123, 5, s, <<>>, n) : s \in States, n \in {None, R1124}}
     \cup {RevisionDef(R1124, 5, s, <<>>, None) : s \in States},
   define_order |-> BranchOrder,
   delta_order |-> BranchOrder,
   infos |-> {[log |-> "Initial revision\n", text |-> "text"]},
   raises |-> {"RCSParseError"}]

NextReAdd == NextOver(ReAddInputs)

SpecReAdd == Init /\ [][NextReAdd]_vars

\* --------------------------------------------------------------- svn_commit

\* The variables of the collector, which no SVNCommit call changes
collectorVars == <<processed, phase, exc, collectVars, fdcVars, sdcVars, walk>>

MaxCommits == 2

\* Ctx().username
Username == "cvs2svn"

\* Ctx()._cvs_items_db: { id : CVSRevision }, and Ctx()._metadata_db
\* The bytes of a string outside ASCII are written \xHH.  The author of
\* m2 is in Windows-1252; the log message of m2 has a byte that is no
\* character of it.
CvsItemsDb ==
  [id \in {1, 26} |->
     [id |-> id, metadata_id |-> IF id = 1 THEN "m1" ELSE "m2",
      filename |-> IF id = 1 THEN "proj/a,v" ELSE "proj/b,v"]]

MetadataDb ==
  [m \in {"m1", "m2"} |->
     IF m = "m1" THEN [author |-> "jrandom", log |-> "Initial revision\n"]
     ELSE [author |-> "J\\xe9r\\xf4me", log |-> "Merged \\x81foo\n"]]

\* Two symbols: a branch whose name is 13 characters long and 12 when
\* cleaned, and a tag whose name is 13 characters long
BranchOf12 == "BRANCH_%12345"

TagOf13 == "RELEASE_1_0_1"

\* Ctx()._symbol_db.get_symbol(name): the class of the symbol
get_symbol(name) == IF name = TagOf13 THEN "TagSymbol" ELSE "BranchSymbol"

\* clean_symbolic_name: the name without the escape characters
RECURSIVE clean_symbolic_name(_)
clean_symbolic_name(name) ==
  IF name = "" THEN ""
  ELSE (IF SubSeq(name, 1, 1) = "%" THEN "" ELSE SubSeq(name, 1, 1))
       \o clean_symbolic_name(SubSeq(name, 2, Len(name)))

\* '%x' % n and int(key, 16)
HexDigits == <<"0", "1", "2", "3", "4", "5", "6", "7",
               "8", "9", "a", "b", "c", "d", "e", "f">>

RECURSIVE Hex(_)
Hex(n) ==
  IF n < 16 THEN HexDigits[n + 1]
  ELSE Hex(n \div 16) \o HexDigits[(n % 16) + 1]

HexValue(d) == (CHOOSE i \in DOMAIN HexDigits : HexDigits[i] = d) - 1

RECURSIVE ParseHex(_)
ParseHex(key) ==
  IF Len(key) = 1 THEN HexValue(key)
  ELSE 16 * ParseHex(SubSeq(key, 1, Len(key) - 1))
       + HexValue(SubSeq(key, Len(key), Len(key)))

\* '%d' % n
RECURSIVE Decimal(_)
Decimal(n) ==
  IF n < 10 THEN HexDigits[n + 1]
  ELSE Decimal(n \div 10) \o HexDigits[(n % 10) + 1]

\* (mutant) the counter advanced for a given revnum as well
SVNCommit__init___Counting(counter, class, description, revnum, cvs_revs) ==
  [self |-> [class |-> class, description |-> description,
             _author |-> Username,
             _log_msg |-> "This log message means an SVNCommit was used too soon.",
             date |-> 0, cvs_revs |-> cvs_revs,
             revnum |-> IF revnum # None /\ revnum[1] # 0 THEN revnum[1]
                        ELSE counter,
             symbolic_name |-> None, motivating_revnum |-> None,
             is_tag |-> None],
   counter |-> counter + 1]

\* SVNCommit.__init__ for an object of the class, counter being
\* SVNCommit.revnum, as [self, counter]; revnum is None or <<n>>
SVNCommit__init__(counter, class, description, revnum, cvs_revs) ==
  LET given == revnum # None /\ revnum[1] # 0 IN
  [self |-> [class |-> class, description |-> description,
             _author |-> Username,
             _log_msg |-> "This log message means an SVNCommit was used too soon.",
             date |-> 0, cvs_revs |-> cvs_revs,
             revnum |-> IF given THEN revnum[1] ELSE counter,
             symbolic_name |-> None, motivating_revnum |-> None,
             is_tag |-> None],
   counter |-> IF given THEN counter ELSE counter + 1]

set_symbolic_name(self, symbolic_name) ==
  [self EXCEPT !.symbolic_name = <<symbolic_name>>]

set_motivating_revnum(self, revnum) ==
  [self EXCEPT !.motivating_revnum = <<revnum>>]

set_author(self, author) == [self EXCEPT !._author = author]

set_log_msg(self, msg) == [self EXCEPT !._log_msg = msg]

add_revision(self, cvs_rev) == [self EXCEPT !.cvs_revs = Append(@, cvs_rev)]

\* for c_rev in c_revs: self.add_revision(c_rev)
RECURSIVE AddRevisions(_, _)
AddRevisions(self, c_revs) ==
  IF c_revs = <<>> THEN self
  ELSE AddRevisions(add_revision(self, Head(c_revs)), Tail(c_revs))

\* (mutant) the initial commit numbered by the counter
SVNInitialProjectCommit_Counted(counter, date) ==
  LET c == SVNCommit__init__(counter, "SVNInitialProjectCommit",
                             "Initialization", None, <<>>)
  IN [self |-> set_log_msg([c.self EXCEPT !.date = date],
                           "New repository initialized by cvs2svn."),
      counter |-> c.counter]

\* The constructors of the subclasses, as [self, counter]
SVNInitialProjectCommit(counter, date) ==
  LET c == SVNCommit__init__(counter, "SVNInitialProjectCommit",
                             "Initialization", <<1>>, <<>>)
  IN [self |-> set_log_msg([c.self EXCEPT !.date = date],
                           "New repository initialized by cvs2svn."),
      counter |-> c.counter]

SVNPrimaryCommit(counter, c_revs) ==
  LET c == SVNCommit__init__(counter, "SVNPrimaryCommit", "commit", None, <<>>)
  IN [self |-> AddRevisions(c.self, c_revs), counter |-> c.counter]

SVNPreCommit(counter, name) ==
  LET c == SVNCommit__init__(counter, "SVNPreCommit",
                             "pre-commit symbolic name '" \o name \o "'",
                             None, <<>>)
  IN [self |-> set_symbolic_name(c.self, name), counter |-> c.counter]

SVNPostCommit(counter, motivating_revnum, c_revs) ==
  LET c == SVNCommit__init__(counter, "SVNPostCommit",
                             "post-commit default branch(es)", None, <<>>)
  IN [self |-> AddRevisions(set_motivating_revnum(c.self, motivating_revnum),
                            c_revs),
      counter |-> c.counter]

SVNSymbolCloseCommit(counter, name, date) ==
  LET c == SVNCommit__init__(counter, "SVNSymbolCloseCommit",
                             "closing tag/branch '" \o name \o "'", None, <<>>)
  IN [self |-> [set_symbolic_name(c.self, name) EXCEPT !.date = date],
      counter |-> c.counter]

\* (mutant) the motivating revnum left out of the state
__getstate___Unmotivated(self) ==
  [revnum |-> self.revnum,
   c_rev_keys |-> [i \in DOMAIN self.cvs_revs |-> Hex(self.cvs_revs[i])],
   motivating_revnum |-> None,
   name |-> self.symbolic_name,
   date |-> self.date]

\* __getstate__: the ids of the CVSRevisions in hexadecimal
__getstate__(self) ==
  [revnum |-> self.revnum,
   c_rev_keys |-> [i \in DOMAIN self.cvs_revs |-> Hex(self.cvs_revs[i])],
   motivating_revnum |-> self.motivating_revnum,
   name |-> self.symbolic_name,
   date |-> self.date]

\* __setstate__'s loop over c_rev_keys: author and log message are those
\* of the first CVSRevision
RECURSIVE ReadRevisions(_, _, _)
ReadRevisions(self, c_rev_keys, metadata_id) ==
  IF c_rev_keys = <<>> THEN self
  ELSE LET c_rev == CvsItemsDb[ParseHex(Head(c_rev_keys))]
           added == add_revision(self, c_rev.id)
       IN IF metadata_id = None
          THEN ReadRevisions(
                 set_log_msg(set_author(added, MetadataDb[c_rev.metadata_id].author),
                             MetadataDb[c_rev.metadata_id].log),
                 Tail(c_rev_keys), <<c_rev.metadata_id>>)
          ELSE ReadRevisions(added, Tail(c_rev_keys), metadata_id)

\* (mutant) the test of trunk_only made after the symbolic name is read
__setstate___TrunkLast(counter, class, state, trunk) ==
  LET c == SVNCommit__init__(counter, class, "Retrieved from disk",
                             <<state.revnum>>, <<>>)
      read == [ReadRevisions(c.self, state.c_rev_keys, None)
                 EXCEPT !.date = state.date]
  IN IF state.name # None /\ state.name[1] # "" /\ read.cvs_revs # <<>>
     THEN [self |-> read, counter |-> c.counter,
           exc |-> "SVNCommitInternalInconsistencyError"]
     ELSE IF trunk
     THEN [self |-> read, counter |-> c.counter, exc |-> "None"]
     ELSE [self |-> (IF state.motivating_revnum # None
                     THEN set_motivating_revnum(read, state.motivating_revnum[1])
                     ELSE read),
           counter |-> c.counter, exc |-> "None"]

\* __setstate__ on an object of the class pickle restores, as
\* [self, counter, exc]
__setstate__(counter, class, state, trunk) ==
  LET c == SVNCommit__init__(counter, class, "Retrieved from disk",
                             <<state.revnum>>, <<>>)
      read == [ReadRevisions(c.self, state.c_rev_keys, None)
                 EXCEPT !.date = state.date]
      motivated(self) == IF state.motivating_revnum # None
                         THEN set_motivating_revnum(self, state.motivating_revnum[1])
                         ELSE self
  IN IF trunk
     THEN [self |-> read, counter |-> c.counter, exc |-> "None"]
     ELSE IF state.name # None /\ state.name[1] # ""
     THEN IF read.cvs_revs # <<>>
          THEN [self |-> read, counter |-> c.counter,
                exc |-> "SVNCommitInternalInconsistencyError"]
          ELSE [self |-> motivated(
                  [set_symbolic_name(read, state.name[1])
                     EXCEPT !.is_tag = IF get_symbol(state.name[1]) = "TagSymbol"
                                       THEN <<1>> ELSE @]),
                counter |-> c.counter, exc |-> "None"]
     ELSE [self |-> motivated(read), counter |-> c.counter, exc |-> "None"]

\* (mutant) the length of the name as given, not as cleaned
SpaceOrNewline_Raw(symbolic_name) ==
  IF Len(symbolic_name) >= 13 THEN "\n" ELSE " "

\* _log_msg_for_symbolic_name_commit: space_or_newline
SpaceOrNewline(symbolic_name) ==
  IF Len(clean_symbolic_name(symbolic_name)) >= 13 THEN "\n" ELSE " "

_log_msg_for_symbolic_name_commit(self) ==
  "This commit was manufactured by cvs2svn to create "
  \o (IF self.is_tag # None /\ self.is_tag[1] # 0 THEN "tag" ELSE "branch")
  \o SpaceOrNewline(self.symbolic_name[1])
  \o "'" \o clean_symbolic_name(self.symbolic_name[1]) \o "'."

_log_msg_for_default_branch_commit(self) ==
  "This commit was generated by cvs2svn to compensate for changes in r"
  \o Decimal(self.motivating_revnum[1])
  \o ",\nwhich included commits to RCS files with non-trunk default branches.\n"

get_log_msg(self) ==
  IF self.symbolic_name # None
  THEN _log_msg_for_symbolic_name_commit(self)
  ELSE IF self.motivating_revnum # None
  THEN _log_msg_for_default_branch_commit(self)
  ELSE self._log_msg

\* Ctx().to_utf8 for the encoding Windows-1252, as <<>> when it raises
\* UnicodeError and <<the text in UTF-8>> otherwise: the characters of the
\* non-ASCII bytes the texts use, in UTF-8
Cp1252ToUtf8 == [b \in {"\\xe9", "\\xf4"} |->
                   IF b = "\\xe9" THEN "\\xc3\\xa9" ELSE "\\xc3\\xb4"]

\* The byte of the text at i, as written: \xHH where a backslash stands,
\* nothing within the \xHH begun before i, else the character
ByteAt(text, i) ==
  IF SubSeq(text, i, i) = "\\" THEN SubSeq(text, i, i + 3)
  ELSE IF \E j \in 1..3 : i - j >= 1 /\ SubSeq(text, i - j, i - j) = "\\"
  THEN ""
  ELSE SubSeq(text, i, i)

IsAscii(byte) == Len(byte) <= 1

\* The bytes lo..hi of the text in UTF-8
RECURSIVE Transcoded(_, _, _)
Transcoded(text, lo, hi) ==
  IF lo > hi THEN ""
  ELSE IF lo = hi
  THEN IF IsAscii(ByteAt(text, lo)) THEN ByteAt(text, lo)
       ELSE Cp1252ToUtf8[ByteAt(text, lo)]
  ELSE Transcoded(text, lo, (lo + hi) \div 2)
       \o Transcoded(text, ((lo + hi) \div 2) + 1, hi)

\* The places of the text where a byte outside ASCII is written
NonAscii(text) == {i \in 1..Len(text) : SubSeq(text, i, i) = "\\"}

to_utf8(text) ==
  IF NonAscii(text) = {} THEN <<text>>
  ELSE IF \E i \in NonAscii(text) : ByteAt(text, i) \notin DOMAIN Cp1252ToUtf8
  THEN <<>>
  ELSE <<Transcoded(text, 1, Len(text))>>

\* format_date(date), for a date within the first minute of 1970
format_date(date) ==
  "1970-01-01T00:00:" \o (IF date < 10 THEN "0" ELSE "") \o Decimal(date)
  \o ".000000Z"

\* text.rstrip()
RECURSIVE rstrip(_)
rstrip(text) ==
  IF text # "" /\ SubSeq(text, Len(text), Len(text)) \in {" ", "\n", "\t", "\r"}
  THEN rstrip(SubSeq(text, 1, Len(text) - 1))
  ELSE text

Revprops(author, log, date) ==
  [svn_author |-> author, svn_log |-> log, svn_date |-> date]

\* (mutant) the author kept as transcoded when the log message fails
get_revprops_HalfRaw(self) ==
  LET date == format_date(self.date)
      utf8_author == to_utf8(self._author)
      utf8_log == to_utf8(get_log_msg(self))
  IN IF utf8_author # <<>> /\ utf8_log # <<>>
     THEN [revprops |-> Revprops(utf8_author[1], utf8_log[1], date),
           warn |-> <<>>]
     ELSE [revprops |-> Revprops(IF utf8_author # <<>> THEN utf8_author[1]
                                 ELSE self._author,
                                 get_log_msg(self), date),
           warn |-> <<"WARNING: problem encoding author or log message:">>]

\* get_revprops, as [revprops, warn]: warn is the lines given to
\* Log().warn.  (No call of the model sets the author to None.)
get_revprops(self) ==
  LET date == format_date(self.date)
      utf8_author == to_utf8(self._author)
      utf8_log == to_utf8(get_log_msg(self))
  IN IF utf8_author # <<>> /\ utf8_log # <<>>
     THEN [revprops |-> Revprops(utf8_author[1], utf8_log[1], date),
           warn |-> <<>>]
     ELSE [revprops |-> Revprops(self._author, get_log_msg(self), date),
           warn |-> <<"WARNING: problem encoding author or log message:",
                      "  author: '" \o self._author \o "'",
                      "  log:    '" \o rstrip(get_log_msg(self)) \o "'",
                      "  date:   '" \o date \o "'",
                      "(subversion rev " \o Decimal(self.revnum)
                        \o ")  Related files:">>
                    \o [i \in DOMAIN self.cvs_revs |->
                          "  " \o CvsItemsDb[self.cvs_revs[i]].filename]
                    \o <<"Consider rerunning with one or more '--encoding' parameters.\n">>]

\* ---- the calls made on the commits

\* A new object joins the commits
Created(c) ==
  /\ commits' = Append(commits, c.self)
  /\ SVNCommit_revnum' = c.counter
  /\ commit_exc' = "None"
  /\ revprops' = <<>>
  /\ log_warn' = <<>>
  /\ UNCHANGED <<trunk_only, collectorVars>>

NewInitialProjectCommit(date) ==
  /\ Len(commits) < MaxCommits
  /\ \A i \in DOMAIN commits : commits[i].class # "SVNInitialProjectCommit"
  /\ Created(SVNInitialProjectCommit(SVNCommit_revnum, date))

NewPrimaryCommit(c_revs) ==
  /\ Len(commits) < MaxCommits
  /\ Created(SVNPrimaryCommit(SVNCommit_revnum, c_revs))

NewPreCommit(name) ==
  /\ Len(commits) < MaxCommits
  /\ Created(SVNPreCommit(SVNCommit_revnum, name))

NewPostCommit(motivating_revnum, c_revs) ==
  /\ Len(commits) < MaxCommits
  /\ Created(SVNPostCommit(SVNCommit_revnum, motivating_revnum, c_revs))

NewSymbolCloseCommit(name, date) ==
  /\ Len(commits) < MaxCommits
  /\ Created(SVNSymbolCloseCommit(SVNCommit_revnum, name, date))

\* commits[i].add_revision(cvs_rev) and commits[i].set_symbolic_name(name),
\* called on the newest object, the one being built up: the objects share
\* nothing but the counter, so each of them can get to all of its values
CallAddRevision(i, cvs_rev) ==
  /\ i = Len(commits)
  /\ cvs_rev \notin Range(commits[i].cvs_revs)
  /\ commits' = [commits EXCEPT ![i] = add_revision(@, cvs_rev)]
  /\ commit_exc' = "None"
  /\ revprops' = <<>>
  /\ log_warn' = <<>>
  /\ UNCHANGED <<SVNCommit_revnum, trunk_only, collectorVars>>

CallSetSymbolicName(i, name) ==
  /\ i = Len(commits)
  /\ commits' = [commits EXCEPT ![i] = set_symbolic_name(@, name)]
  /\ commit_exc' = "None"
  /\ revprops' = <<>>
  /\ log_warn' = <<>>
  /\ UNCHANGED <<SVNCommit_revnum, trunk_only, collectorVars>>

\* commits[i] is written to disk and read back: a new object, unless
\* __setstate__ raises
Retrieve(i) ==
  /\ Len(commits) < MaxCommits
  /\ LET r == __setstate__(SVNCommit_revnum, commits[i].class,
                           __getstate__(commits[i]), trunk_only)
     IN /\ SVNCommit_revnum' = r.counter
        /\ commit_exc' = r.exc
        /\ commits' = IF r.exc = "None" THEN Append(commits, r.self) ELSE commits
  /\ revprops' = <<>>
  /\ log_warn' = <<>>
  /\ UNCHANGED <<trunk_only, collectorVars>>

\* commits[i].get_revprops(), called on the newest object
CallGetRevprops(i) ==
  /\ i = Len(commits)
  /\ LET r == get_revprops(commits[i])
     IN /\ revprops' = <<r.revprops>>
        /\ log_warn' = r.warn
  /\ commit_exc' = "None"
  /\ UNCHANGED <<SVNCommit_revnum, commits, trunk_only, collectorVars>>

\* The option --trunk-only, read before any commit is made
SetTrunkOnly ==
  /\ commits = <<>>
  /\ ~trunk_only
  /\ trunk_only' = TRUE
  /\ UNCHANGED <<SVNCommit_revnum, commits, commit_exc, revprops, log_warn,
                 collectorVars>>

NextCommits ==
  \/ NewInitialProjectCommit(7)
  \/ \E c_revs \in {<<>>, <<26>>} : NewPrimaryCommit(c_revs)
  \/ \E name \in {BranchOf12, TagOf13} : NewPreCommit(name)
  \/ \E c_revs \in {<<26>>} : NewPostCommit(2, c_revs)
  \/ \E name \in {TagOf13} : NewSymbolCloseCommit(name, 7)
  \/ \E i \in DOMAIN commits, cvs_rev \in DOMAIN CvsItemsDb :
       CallAddRevision(i, cvs_rev)
  \/ \E i \in DOMAIN commits : CallSetSymbolicName(i, BranchOf12)
  \/ \E i \in DOMAIN commits : Retrieve(i)
  \/ \E i \in DOMAIN commits : CallGetRevprops(i)
  \/ SetTrunkOnly

SpecCommits == Init /\ [][NextCommits]_vars

\* ------------------------------------------------------------------ claims

\* tree_completed has returned for the running file
TreeCompleted == phase = "deltas"

\* C1: whenever tree_completed has returned for a file, every revision R
\* with a parent P (its predecessor on its line of development or, for the
\* first commit on a branch, the revision the branch sprouts from) has
\* P.timestamp < R.timestamp.
C1_ParentsAreEarlier ==
  TreeCompleted =>
    \A r \in DOMAIN rev_data :
      rev_data[r].parent # None =>
        rev_data[rev_data[r].parent].timestamp < rev_data[r].timestamp

\* tree_completed has returned after it moved the sprout 1.1 of a branch
\* with a commit, 1.1 having a child on trunk too
C1_Witness ==
  /\ TreeCompleted
  /\ {R11, R12, R1111} \subseteq DOMAIN rev_data
  /\ rev_data[R12].parent = R11
  /\ rev_data[R1111].parent = R11
  /\ rev_data[R11].adjusted
  /\ rev_data[R11].timestamp < rev_data[R11].original_timestamp - 1

\* The least timestamp the parser gave a revision of the running file
RECURSIVE SetMin(_)
SetMin(S) ==
  LET x == CHOOSE x \in S : TRUE IN
  IF S = {x} THEN x
  ELSE LET m == SetMin(S \ {x}) IN IF x < m THEN x ELSE m

LeastOriginal == SetMin({rev_data[r].original_timestamp : r \in DOMAIN rev_data})

\* C2: the resync loop of tree_completed terminates whenever dependency
\* resolution completed without a structural error.  A turn of the loop
\* lowers one timestamp and does nothing else, so the loop runs forever
\* exactly when timestamps are lowered without limit; when it ends, a
\* timestamp was lowered along a chain of distinct revisions, to no less than
\* the least original timestamp minus the number of the other revisions.
\* Stated as that limit: no timestamp falls below it while the loop runs.
C2_ResyncTerminates ==
  phase = "resync" =>
    \A r \in DOMAIN rev_data :
      rev_data[r].timestamp >= LeastOriginal - (Cardinality(DOMAIN rev_data) - 1)

\* The operation and the log message of the CVSRevision emitted for r
EmittedOp(r) == cvs_revs_db[rev_data[r].c_rev[1]].op

EmittedLog(r) == cvs_revs_db[rev_data[r].c_rev[1]].digest[1]

\* C3: every emitted CVSRevision has op = Delete if and only if the state
\* of its revision is 'dead', whatever its parent's state and its line of
\* development.
C3_DeleteIffDead ==
  \A r \in Emitted : EmittedOp(r) = "OP_DELETE" <=> rev_data[r].state = "dead"

\* A file added in 1.2 and removed in 1.3: Add, then Delete
C3_Witness ==
  /\ {R12, R13} \subseteq Emitted
  /\ rev_data[R12].parent = None
  /\ rev_data[R13].parent = R12
  /\ EmittedOp(R12) = "OP_ADD"
  /\ EmittedOp(R13) = "OP_DELETE"

\* C4: every emitted CVSRevision with op = Add has no parent revision or a
\* parent revision whose state is 'dead'.
C4_AddHasNoLiveParent ==
  \A r \in Emitted :
    EmittedOp(r) = "OP_ADD" =>
      \/ rev_data[r].parent = None
      \/ rev_data[rev_data[r].parent].state = "dead"

\* 1.3 emitted as an Add after the dead 1.2
C4_Witness ==
  /\ R13 \in Emitted
  /\ rev_data[R13].parent = R12
  /\ rev_data[R12].state = "dead"
  /\ EmittedOp(R13) = "OP_ADD"

\* Every predecessor of r on its own line is dead and the revision the
\* line sprouts from is alive
RECURSIVE DeadUpToLiveSprout(_, _)
DeadUpToLiveSprout(rd, r) ==
  LET p == rd[r].parent IN
  IF p = None THEN FALSE
  ELSE IF ~is_same_line_of_development(r, p) THEN rd[p].state # "dead"
  ELSE rd[p].state = "dead" /\ DeadUpToLiveSprout(rd, p)

\* C5: a branch revision in a non-dead state whose predecessors on its own
\* branch are all dead, while the revision the branch sprouts from is
\* alive, is emitted as a Change, not as an Add.
C5_LiveAboveDeadIsChange ==
  \A r \in Emitted :
    (/\ is_branch_revision(r)
     /\ rev_data[r].state # "dead"
     /\ DeadUpToLiveSprout(rev_data, r))
    => EmittedOp(r) = "OP_CHANGE"

\* 1.3 alive, 1.3.2.1 dead, 1.3.2.2 alive and emitted as a Change
C5_Witness ==
  /\ R1322 \in Emitted
  /\ rev_data[R1322].parent = R1321
  /\ rev_data[R1321].parent = R13
  /\ rev_data[R13].state = "Exp"
  /\ rev_data[R1321].state = "dead"
  /\ rev_data[R1322].state = "Exp"
  /\ EmittedOp(R1322) = "OP_CHANGE"

\* The last vendor revision (1.1.1.N) of a sequence of revisions
RECURSIVE LastVendorRevision(_)
LastVendorRevision(order) ==
  IF order = <<>> THEN None
  ELSE IF vendor_revision(Last(order)) THEN Last(order)
  ELSE LastVendorRevision(Front(order))

\* C6: for a file with no declared principal branch and no revision 1.2,
\* after tree_completed the default-branch head is the last vendor revision
\* in callback order (1.1.1.2 for the revisions 1.1, 1.1.1.1, 1.1.1.2).
C6_HeadIsLastVendorRevision ==
  (/\ TreeCompleted
   /\ Emitted = {}
   /\ default_branch = None
   /\ R12 \notin DOMAIN rev_data)
  => cvs_file.default_branch = LastVendorRevision(rev_order)

C6_Witness ==
  /\ TreeCompleted
  /\ Emitted = {}
  /\ default_branch = None
  /\ rev_order = <<R11, R1111, R1112>>
  /\ cvs_file.default_branch = R1112

\* The file of the scenario: 1.1, 1.1.1.1, 1.1.1.2 and the added 1.2, no
\* principal branch declared, every log message given
ImportThenCommit ==
  /\ phase = "deltas"
  /\ default_branch = None
  /\ DOMAIN rev_data = {R11, R12, R1111, R1112}
  /\ Emitted = DOMAIN rev_data

\* C7 as claimed: in that file, once 1.2 has the log message 'Merged foo\n',
\* the default-branch head is none when the analysis of the file ends.
C7_ClearedByLogOf12 ==
  (ImportThenCommit /\ EmittedLog(R12) = "Merged foo\n")
  => cvs_file.default_branch = None

\* C7 as amended: the head is none once revision 1.1 has been given a log
\* message other than 'Initial revision\n'; the log message of 1.2 does
\* not clear it.
C7_ClearedByLogOf11 ==
  (phase = "deltas" /\ R11 \in Emitted /\ EmittedLog(R11) # InitialRevisionLog)
  => cvs_file.default_branch = None

\* The scenario's file, its vendor revisions older than 1.2, 1.1 logged
\* 'Merged foo\n': the head is none
C7_Witness ==
  /\ ImportThenCommit
  /\ rev_order = <<R12, R11, R1111, R1112>>
  /\ first_non_vendor_revision_date = <<6>>
  /\ rev_data[R1112].original_timestamp = 5
  /\ EmittedLog(R11) = "Merged foo\n"
  /\ cvs_file.default_branch = None

\* The pathnames with a fatal error of the kind
PathsWithError(kind) ==
  {fatal_errors[i].path : i \in {j \in DOMAIN fatal_errors :
                                   fatal_errors[j].kind = kind}}

InvalidFiles == PathsWithError("not a valid ,v file")

ConflictingFiles == PathsWithError("both in and out of Attic")

\* C8: when the analysis of a file failed (the parser raised a parse error
\* at any point), none of the file's revisions, metadata entries, resync
\* lines or symbol statistics are in the artifact stores afterwards: no
\* stored CVSRevision is of such a file, and while every file so far
\* failed the stores are empty.
C8_NothingStoredOfFailedFile ==
  phase = "idle" =>
    /\ \A id \in DOMAIN cvs_revs_db :
         cvs_revs_db[id].cvs_file.filename \notin InvalidFiles
    /\ (processed \subseteq InvalidFiles) =>
         /\ all_revs = <<>>
         /\ metadata_db = EmptyDict
         /\ resync = <<>>
         /\ symbol_db = EmptySymbolDb

\* C9: a file outside Attic with an Attic sibling of its base name is
\* rejected with a fatal error: it contributes no CVSRevision, no CVSFile
\* record and no symbol facts, and is not counted in num_files.
C9_ConflictingFileRejected ==
  /\ \A id \in DOMAIN cvs_revs_db :
       cvs_revs_db[id].cvs_file.filename \notin ConflictingFiles
  /\ \A id \in DOMAIN cvs_file_db :
       cvs_file_db[id].filename \notin ConflictingFiles
  /\ (processed \subseteq ConflictingFiles) => symbol_db = EmptySymbolDb
  /\ num_files <= Cardinality(processed \ ConflictingFiles)

\* C10: when the parser raises a parse error or a value error, process_file
\* appends exactly one 'not a valid ,v file' entry to fatal_errors and
\* returns, so that the next process_file runs; num_files, which changes
\* only in the step that ends a file's parse_completed, is not incremented;
\* an unknown exception is not recorded and propagates.
C10_ExceptionBoundary ==
  [][/\ phase = "raised" =>
          IF exc \in {"RCSParseError", "ValueError"}
          THEN /\ fatal_errors' = Append(fatal_errors,
                                         InvalidError(cvs_file.filename))
               /\ num_files' = num_files
               /\ phase' = "idle"
          ELSE exc \notin CaughtExceptions =>
                 /\ fatal_errors' = fatal_errors
                 /\ num_files' = num_files
                 /\ phase' = "crashed"
     /\ (phase \in Parsing \cup {"resync"} /\ phase' # "idle") =>
          num_files' = num_files]_vars

\* The second file is being processed after a value error in the first
C10_Witness ==
  /\ Cardinality(processed) = 2
  /\ phase = "deltas"
  /\ num_files = 0
  /\ fatal_errors = <<AtticError(Path(<<"proj">>, "b,v")),
                      InvalidError(Path(<<"proj">>, "b,v"))>>

\* C11: a callback stream that would assign a revision's parent slot or
\* primary-child slot a second time is surfaced as a fatal-error entry for
\* the file, and the batch continues with the next file: the assertion
\* that fails in _resolve_dependencies ends in an entry of fatal_errors
\* and in the return of process_file.
C11_StructuralErrorIsFatalEntry ==
  [][(phase = "raised" /\ exc = "AssertionError") =>
       /\ fatal_errors' = Append(fatal_errors, InvalidError(cvs_file.filename))
       /\ phase' = "idle"]_vars

\* The steps that are define_symbol(rawname, revision) for a symbol of the
\* file's header
IsDefineSymbol(y) == define_tag(y[1], y[2])

\* C12: define_symbol called with a name that, after the transform rules,
\* was already defined in the same file appends exactly one fatal error to
\* the global error list and changes nothing else: the branch table, the
\* tag index and the symbol statistics hold the first definition only.
C12_SecondDefinitionIgnored ==
  [][\A y \in SymbolInputs.symbols :
       (IsDefineSymbol(y) /\ Name(_transform_symbol(y[1])) \in known_symbols)
       => /\ Len(fatal_errors') = Len(fatal_errors) + 1
          /\ SubSeq(fatal_errors', 1, Len(fatal_errors)) = fatal_errors
          /\ Last(fatal_errors').kind = "Multiple definitions of the symbol"
          /\ UNCHANGED <<known_symbols, branches_data, tags_data, symbol_db,
                         key_generator, cvs_file, rev_data, rev_order,
                         num_files, cvs_revs_db, cvs_file_db, metadata_db>>
    ]_vars

\* T defined on 1.1, then T2 (transformed to T) on 1.1.1.1: one fatal
\* error, and T is a tag of 1.1 only
C12_Witness ==
  /\ fatal_errors = <<MultipleError(Name("T"), cvs_file.filename)>>
  /\ known_symbols = {Name("T")}
  /\ DOMAIN tags_data = {R11}
  /\ Len(tags_data[R11]) = 1
  /\ tags_data[R11][1].name = Name("T")
  /\ symbol_db.tag_creations = Put(EmptyDict, Name("T"), 1)
  /\ branches_data = EmptyDict

\* A branch number written with an interposed zero segment (P.0.N, an even
\* number of components) without it (P.N); any other number unchanged
NormalizedBranchNumber(revision) ==
  LET n == Len(revision) IN
  IF n % 2 = 0 /\ n >= 4 /\ revision[n - 1] = 0
  THEN [i \in 1..(n - 1) |-> IF i = n - 1 THEN revision[n] ELSE revision[i]]
  ELSE revision

IsBranchNumber(number) == Len(number) >= 3 /\ Len(number) % 2 = 1

\* C13: define_symbol classifies a symbol as a branch exactly when its raw
\* revision number, the interposed zero segment removed, has an odd number
\* (at least 3) of components, and stores it under the normalized branch
\* number; any other revision number makes the symbol a tag stored under
\* the raw revision number.
C13_BranchOrTag ==
  [][\A y \in SymbolInputs.symbols :
       (IsDefineSymbol(y) /\ Name(_transform_symbol(y[1])) \notin known_symbols)
       => LET name == Name(_transform_symbol(y[1]))
              number == NormalizedBranchNumber(y[2])
          IN IF IsBranchNumber(number)
             THEN /\ number \in DOMAIN branches_data'
                  /\ number \notin DOMAIN branches_data =>
                       /\ branches_data'[number].name = name
                       /\ branches_data'[number].branch_number = number
                       /\ DOMAIN branches_data' = DOMAIN branches_data \cup {number}
                  /\ tags_data' = tags_data
             ELSE /\ y[2] \in DOMAIN tags_data'
                  /\ Last(tags_data'[y[2]]).name = name
                  /\ Last(tags_data'[y[2]]).rev = y[2]
                  /\ branches_data' = branches_data
    ]_vars

\* C given for 1.1.0.1 is the branch 1.1.1, T given for 1.1 is a tag of 1.1
C13_Witness ==
  /\ known_symbols = {Name("C"), Name("T")}
  /\ DOMAIN branches_data = {<<1, 1, 1>>}
  /\ branches_data[<<1, 1, 1>>].name = Name("C")
  /\ DOMAIN tags_data = {R11}
  /\ tags_data[R11][1].name = Name("T")

\* C14: after any sequence of define_tag and define_revision callbacks,
\* every branch number in some revision's branches list is in the symbol
\* collector's branch table with a name: the name the header gave the
\* number if there is one (a name in the table is never replaced),
\* otherwise 'unlabeled-<branch_number>', created at the first reference
\* and registered as a branch creation.
C14_ListedBranchesAreNamed ==
  [][/\ \A r \in DOMAIN rev_data : \A b \in Range(rev_data[r].branches_data) :
          /\ b \in DOMAIN branches_data
          /\ branches_data[b].name \in known_symbols \cup {UnlabeledName(b)}
          /\ Count(symbol_db.branch_creations, branches_data[b].name) >= 1
     /\ \A b \in DOMAIN branches_data \cap DOMAIN branches_data' :
          branches_data'[b].name = branches_data[b].name
     /\ \A b \in DOMAIN branches_data' \ DOMAIN branches_data :
          Len(rev_order') > Len(rev_order) =>
            /\ b \in Range(rev_data'[Last(rev_order')].branches_data)
            /\ branches_data'[b].name = UnlabeledName(b)
            /\ Count(symbol_db'.branch_creations, UnlabeledName(b))
                 = Count(symbol_db.branch_creations, UnlabeledName(b)) + 1
    ]_vars

\* 1.1 lists 1.1.1.1, whose branch the header named B; 1.1.1.1 lists
\* 1.1.1.1.2.1, whose branch has no name in the header
C14_Witness ==
  /\ {R11, R1111} \subseteq DOMAIN rev_data
  /\ rev_data[R11].branches_data = << <<1, 1, 1>> >>
  /\ rev_data[R1111].branches_data = << <<1, 1, 1, 1, 2>> >>
  /\ branches_data[<<1, 1, 1>>].name = Name("B")
  /\ branches_data[<<1, 1, 1, 1, 2>>].name = UnlabeledName(<<1, 1, 1, 1, 2>>)
  /\ symbol_db.branch_creations =
       Put(Put(EmptyDict, Name("B"), 1), UnlabeledName(<<1, 1, 1, 1, 2>>), 1)

\* The name of the branch on which the branch revision r lies
OwnerName(r) == branches_data[Front(r)].name

\* The blockers the claim lists for the running file
TagsOnBranchRevisions ==
  {<<OwnerName(r), tags_data[r][i].name>> :
     <<r, i>> \in {<<q, j>> \in (DOMAIN tags_data) \X (1..MaxSymbols + 1) :
                     Len(q) >= 4 /\ j \in DOMAIN tags_data[q]}}

BranchesOnBranchRevisions ==
  {<<OwnerName(Front(b)), branches_data[b].name>> :
     b \in {c \in DOMAIN branches_data : Len(c) >= 5}}

\* C15: after parse_completed the blockers registered for the file are
\* exactly (name of the branch owning r, tag name) for every tag on a
\* branch revision r, and (name of the branch owning B's parent revision,
\* name of B) for every branch B whose parent revision is a branch
\* revision; tags on trunk revisions and branches sprouting from trunk
\* register no blocker.
C15_BlockersRegistered ==
  [][(phase = "deltas" /\ phase' = "idle") =>
       symbol_db'.blockers =
         symbol_db.blockers \cup TagsOnBranchRevisions
                            \cup BranchesOnBranchRevisions]_vars

\* T on 1.1.1.1 of the branch B, and the unlabeled branch 1.1.1.1.2
C15_Witness ==
  /\ phase = "idle"
  /\ num_files = 1
  /\ symbol_db.tag_creations = Put(EmptyDict, Name("T"), 1)
  /\ Name("B") \in DOMAIN symbol_db.branch_creations
  /\ symbol_db.blockers =
       {<<Name("B"), Name("T")>>,
        <<Name("B"), UnlabeledName(<<1, 1, 1, 1, 2>>)>>}

\* The names of the running file that gave way to an earlier name of the
\* same branch number: defined, and the name of no branch and of no tag
DiscardedNames ==
  known_symbols
  \ ({branches_data[b].name : b \in DOMAIN branches_data}
     \cup {tags_data[r][i].name :
             <<r, i>> \in {<<q, j>> \in (DOMAIN tags_data) \X (1..MaxSymbols + 1) :
                             j \in DOMAIN tags_data[q]}})

\* The names the stores hold: of the symbol statistics, and of the
\* line-of-development and branch-name fields of the emitted CVSRevisions
NamesCounted(db) ==
  DOMAIN db.branch_creations \cup DOMAIN db.branch_commits
  \cup {p[1] : p \in db.blockers} \cup {p[2] : p \in db.blockers}

NamesEmitted ==
  UNION {Range(cvs_revs_db[id].lod) \cup Range(cvs_revs_db[id].branch_names) :
           id \in DOMAIN cvs_revs_db}

\* C16: when two symbols of one file map to the same normalized branch
\* number, the branch keeps the name defined first: a definition of a
\* number that has a name changes neither the branch table nor the symbol
\* statistics, and no branch-creation count, branch commit count, blocker
\* pair or emitted line-of-development or branch-name field ever holds the
\* later name.
C16_FirstNameWins ==
  [][/\ \A y \in SymbolInputs.symbols :
          (/\ IsDefineSymbol(y)
           /\ Name(_transform_symbol(y[1])) \notin known_symbols
           /\ NormalizedBranchNumber(y[2]) \in DOMAIN branches_data)
          => UNCHANGED <<branches_data, symbol_db>>
     /\ \A b \in DOMAIN branches_data \cap DOMAIN branches_data' :
          branches_data'[b].name = branches_data[b].name
     /\ (NamesCounted(symbol_db) \cup NamesEmitted) \cap DiscardedNames = {}
     /\ NamesCounted(symbol_db') \cap DiscardedNames = {}
    ]_vars

\* B, then C, name the branch 1.1.1: the commit 1.1.1.1 is counted for B
\* and emitted on B, and 1.1 is emitted with the branch name B
C16_Witness ==
  /\ known_symbols = {Name("B"), Name("C")}
  /\ branches_data[<<1, 1, 1>>].name = Name("B")
  /\ symbol_db.branch_creations = Put(EmptyDict, Name("B"), 1)
  /\ symbol_db.branch_commits = Put(EmptyDict, Name("B"), 1)
  /\ Emitted = {R11, R1111}
  /\ cvs_revs_db[rev_data[R1111].c_rev[1]].lod = <<Name("B")>>
  /\ cvs_revs_db[rev_data[R11].c_rev[1]].branch_names = <<Name("B")>>

\* The commits created without a revnum: neither the initial commit nor
\* one retrieved from disk
CreatedWithoutRevnum(c) ==
  c.description \notin {"Initialization", "Retrieved from disk"}

Numbered == SelectSeq(commits, CreatedWithoutRevnum)

\* C17: the commits created without an explicit revnum receive the revnums
\* 2, 3, 4, ... in creation order, and creating the initial commit, or
\* constructing or deserializing a commit with an explicit revnum, does
\* not advance the shared counter: the counter is 2 plus the number of
\* commits created without a revnum.
C17_RevnumsInCreationOrder ==
  /\ \A i \in DOMAIN Numbered : Numbered[i].revnum = FirstRevnum + i - 1
  /\ SVNCommit_revnum = FirstRevnum + Len(Numbered)

\* A pre-commit, then a primary commit: 2 and 3
C17_Witness ==
  /\ Len(commits) = 2
  /\ commits[1].class = "SVNPreCommit"
  /\ commits[2].class = "SVNPrimaryCommit"
  /\ commits[2].description = "commit"
  /\ commits[1].revnum = 2
  /\ commits[2].revnum = 3
  /\ SVNCommit_revnum = 4

\* C18: after any sequence of constructions and deserializations, a commit
\* object has revnum 1 if and only if it is the InitialProjectCommit.
C18_Revnum1IffInitial ==
  \A i \in DOMAIN commits :
    commits[i].revnum = 1 <=> commits[i].class = "SVNInitialProjectCommit"

\* The initial commit and the initial commit retrieved from disk
C18_Witness ==
  /\ Len(commits) = 2
  /\ commits[1].class = "SVNInitialProjectCommit"
  /\ commits[1].description = "Initialization"
  /\ commits[2].class = "SVNInitialProjectCommit"
  /\ commits[2].description = "Retrieved from disk"
  /\ commits[1].revnum = 1
  /\ commits[2].revnum = 1

\* C19: after any sequence of construction, add_revision,
\* set_symbolic_name and deserialization operations, no commit object
\* carries both a non-empty list of CVSRevisions and a symbolic name.
C19_RevisionsOrSymbolicName ==
  \A i \in DOMAIN commits :
    ~(commits[i].cvs_revs # <<>> /\ commits[i].symbolic_name # None)

\* The manufactured log message for the type and the name
ManufacturedLog(type, name) ==
  "This commit was manufactured by cvs2svn to create " \o type
  \o (IF Len(clean_symbolic_name(name)) < 13 THEN " " ELSE "\n")
  \o "'" \o clean_symbolic_name(name) \o "'."

\* C20 as claimed: for a commit with a symbolic name, get_log_msg is the
\* manufactured message with the cleaned name, a space when the cleaned
\* name has fewer than 13 characters and a newline otherwise, and the type
\* 'tag' when the symbol is a tag, 'branch' when it is a branch.
C20_TypeOfTheSymbol ==
  \A i \in DOMAIN commits :
    commits[i].symbolic_name # None =>
      get_log_msg(commits[i]) =
        ManufacturedLog(IF get_symbol(commits[i].symbolic_name[1]) = "TagSymbol"
                        THEN "tag" ELSE "branch",
                        commits[i].symbolic_name[1])

\* C20 as amended: the type is 'tag' when the commit's is_tag flag is set
\* and 'branch' otherwise, and only a commit retrieved from disk has the
\* flag set.
C20_TypeOfTheFlag ==
  \A i \in DOMAIN commits :
    /\ commits[i].symbolic_name # None =>
         get_log_msg(commits[i]) =
           ManufacturedLog(IF commits[i].is_tag = <<1>> THEN "tag" ELSE "branch",
                           commits[i].symbolic_name[1])
    /\ commits[i].is_tag # None =>
         commits[i].description = "Retrieved from disk"

\* The pre-commit of the tag RELEASE_1_0_1 says 'branch'; retrieved from
\* disk it says 'tag'
C20_Witness ==
  /\ Len(commits) = 2
  /\ commits[1].class = "SVNPreCommit"
  /\ commits[1].symbolic_name = <<TagOf13>>
  /\ commits[2].description = "Retrieved from disk"
  /\ get_log_msg(commits[1]) =
       "This commit was manufactured by cvs2svn to create branch\n'RELEASE_1_0_1'."
  /\ get_log_msg(commits[2]) =
       "This commit was manufactured by cvs2svn to create tag\n'RELEASE_1_0_1'."

\* C21: get_revprops always returns author, log and date for a commit:
\* when the transcoding to UTF-8 of the author or of the log message
\* fails, it writes a warning and returns the raw author and the raw log
\* message with the same formatted date, and raises nothing; otherwise it
\* returns the two transcoded, with no warning.
C21_RevpropsFallBackToRaw ==
  revprops # <<>> =>
    LET self == Last(commits) IN
    /\ commit_exc = "None"
    /\ revprops[1].svn_date = format_date(self.date)
    /\ IF to_utf8(self._author) = <<>> \/ to_utf8(get_log_msg(self)) = <<>>
       THEN /\ revprops[1].svn_author = self._author
            /\ revprops[1].svn_log = get_log_msg(self)
            /\ log_warn # <<>>
       ELSE /\ revprops[1].svn_author = to_utf8(self._author)[1]
            /\ revprops[1].svn_log = to_utf8(get_log_msg(self))[1]
            /\ log_warn = <<>>

\* A commit read back with an author in Windows-1252 and a log message
\* that is not: both are returned as they are, and a warning is written
C21_Witness ==
  /\ revprops = <<Revprops("J\\xe9r\\xf4me", "Merged \\x81foo\n",
                           "1970-01-01T00:00:00.000000Z")>>
  /\ Last(commits).description = "Retrieved from disk"
  /\ to_utf8(Last(commits)._author) = <<"J\\xc3\\xa9r\\xc3\\xb4me">>
  /\ to_utf8(get_log_msg(Last(commits))) = <<>>
  /\ Len(log_warn) = 7
  /\ log_warn[1] = "WARNING: problem encoding author or log message:"

\* The revisions recorded no later than their parent
QuickCommits ==
  {r \in DOMAIN rev_data :
     /\ rev_data[r].parent # None
     /\ rev_data[rev_data[r].parent].original_timestamp
          >= rev_data[r].original_timestamp}

\* The timestamp of the CVSRevision emitted for r
EmittedTimestamp(r) == cvs_revs_db[rev_data[r].c_rev[1]].timestamp

\* C22 as claimed: when a revision and its parent were recorded within the
\* same second (the parent's timestamp not earlier than the child's), the
\* analysis yields strictly increasing timestamps by moving the child
\* forward in time by at least one second.
C22_ChildMovedForward ==
  TreeCompleted =>
    \A r \in QuickCommits :
      /\ rev_data[rev_data[r].parent].timestamp < rev_data[r].timestamp
      /\ rev_data[r].timestamp >= rev_data[r].original_timestamp + 1

\* C22 as amended: the timestamps are made strictly increasing by moving
\* the parent back in time, by at least one second, to one second before
\* a child of its; no revision is moved forward, and the two CVSRevisions
\* emitted are distinct and carry these timestamps.
C22_ParentMovedBack ==
  TreeCompleted =>
    /\ \A r \in QuickCommits :
         LET p == rev_data[r].parent IN
         /\ rev_data[p].timestamp < rev_data[r].timestamp
         /\ rev_data[p].adjusted
         /\ rev_data[p].timestamp <= rev_data[p].original_timestamp - 1
         /\ \E c \in DOMAIN rev_data :
              /\ rev_data[c].parent = p
              /\ rev_data[p].timestamp = rev_data[c].timestamp - 1
         /\ {r, p} \subseteq Emitted =>
              /\ rev_data[r].c_rev # rev_data[p].c_rev
              /\ EmittedTimestamp(p) < EmittedTimestamp(r)
    /\ \A r \in DOMAIN rev_data :
         rev_data[r].timestamp <= rev_data[r].original_timestamp
    /\ \A r \in Emitted : EmittedTimestamp(r) = rev_data[r].timestamp

\* 1.1 and 1.2 recorded in the second 5: 1.1 is emitted with 4, 1.2 with 5
C22_Witness ==
  /\ TreeCompleted
  /\ DOMAIN rev_data = {R11, R12}
  /\ rev_data[R12].parent = R11
  /\ rev_data[R11].original_timestamp = 5
  /\ rev_data[R12].original_timestamp = 5
  /\ Emitted = {R11, R12}
  /\ EmittedTimestamp(R11) = 4
  /\ EmittedTimestamp(R12) = 5

\* The timestamp the callback stream alone gives r: its original one,
\* unless a child of r ends no later, and then one second before the
\* earliest of its children (the parent links have no cycle once
\* tree_completed has returned)
RECURSIVE Settled(_)
Settled(r) ==
  SetMin({rev_data[r].original_timestamp}
         \cup {Settled(c) - 1 : c \in {d \in DOMAIN rev_data : rev_data[d].parent = r}})

\* The resync lines the callback stream alone gives the CVSRevisions
\* emitted with the ids, in their order
RECURSIVE SettledLines(_)
SettledLines(ids) ==
  IF ids = <<>> THEN <<>>
  ELSE LET r == cvs_revs_db[Head(ids)].rev
       IN (IF Settled(r) # rev_data[r].original_timestamp
           THEN << <<rev_data[r].original_timestamp,
                     cvs_revs_db[Head(ids)].digest, Settled(r)>> >>
           ELSE <<>>)
          \o SettledLines(Tail(ids))

\* C23: the final timestamps and adjusted flags of the revisions are the
\* same whatever order the resync scan of tree_completed visits the
\* revisions in, and so are the emitted CVSRevisions and the resync log
\* lines: they are a function of the callback stream.
C23_ScanOrderIsIrrelevant ==
  TreeCompleted =>
    /\ \A r \in DOMAIN rev_data :
         /\ rev_data[r].timestamp = Settled(r)
         /\ rev_data[r].adjusted <=> Settled(r) # rev_data[r].original_timestamp
    /\ \A r \in Emitted : EmittedTimestamp(r) = Settled(r)
    /\ resync = SettledLines(all_revs)

\* 1.1 is the parent of 1.2 and of 1.1.1.1, which is the parent of
\* 1.1.1.2, and no revision was recorded before its parent: whichever the
\* scan visits first, 1.1 ends before both and 1.1.1.1 before 1.1.1.2
C23_Witness ==
  /\ TreeCompleted
  /\ DOMAIN rev_data = {R11, R12, R1111, R1112}
  /\ rev_data[R12].parent = R11
  /\ rev_data[R1111].parent = R11
  /\ rev_data[R1112].parent = R1111
  /\ rev_data[R11].original_timestamp = 6
  /\ rev_data[R12].original_timestamp = 6
  /\ rev_data[R1111].original_timestamp = 6
  /\ rev_data[R1112].original_timestamp = 5
  /\ rev_data[R11].timestamp = 3
  /\ rev_data[R1111].timestamp = 4
  /\ Emitted = DOMAIN rev_data
  /\ Len(resync) = 2

\* The CVSRevision emitted for r
EmittedRevision(r) == cvs_revs_db[rev_data[r].c_rev[1]]

\* C24: every emitted CVSRevision on a branch whose is-first-on-branch
\* flag is true has no parent or a parent that is not on its own line of
\* development, and every emitted branch revision whose parent is on its
\* own line of development has the flag false.
C24_FirstOnBranch ==
  \A r \in Emitted :
    is_branch_revision(r) =>
      LET parent == rev_data[r].parent IN
      /\ EmittedRevision(r).prev_id = _get_rev_id(rev_data, parent)
      /\ EmittedRevision(r).first_on_branch =>
           parent = None \/ ~is_same_line_of_development(r, parent)
      /\ (parent # None /\ is_same_line_of_development(r, parent)) =>
           ~EmittedRevision(r).first_on_branch

\* 1.3.2.1, whose parent is 1.3, is first on its branch and 1.3.2.2,
\* whose parent is 1.3.2.1, is not
C24_Witness ==
  /\ {R1321, R1322} \subseteq Emitted
  /\ rev_data[R1321].parent = R13
  /\ rev_data[R1322].parent = R1321
  /\ EmittedRevision(R1321).first_on_branch
  /\ ~EmittedRevision(R1322).first_on_branch

\* The revisions whose parent is A and which are on A's line of development
ChildrenOnLine(A) ==
  {B \in DOMAIN rev_data :
     rev_data[B].parent = A /\ is_same_line_of_development(A, B)}

C26_ResyncLineIffAdjusted ==
  [][IF phase = "deltas" /\ all_revs' # all_revs
     THEN LET c_rev == cvs_revs_db'[Last(all_revs')]
              r == rev_data[c_rev.rev]
          IN /\ timestamp_was_adjusted(r) <=> r.timestamp # r.original_timestamp
             /\ IF r.timestamp # r.original_timestamp
                THEN /\ resync' = Append(resync, <<r.original_timestamp,
                                                   c_rev.digest, r.timestamp>>)
                     /\ r.timestamp < r.original_timestamp
                     /\ c_rev.timestamp = r.timestamp
                ELSE /\ resync' = resync
                     /\ c_rev.timestamp = r.original_timestamp
     ELSE resync' = resync]_vars

\* 1.1 and 1.2 recorded in the second 5: a line for 1.1, none for 1.2
C26_Witness ==
  /\ phase = "deltas"
  /\ Emitted = {R11, R12}
  /\ rev_data[R11].adjusted
  /\ ~rev_data[R12].adjusted
  /\ rev_data[R12].timestamp = rev_data[R12].original_timestamp
  /\ resync = << <<5, <<"Initial revision\n", "jrandom">>, 4>> >>

\* The places in callback order of the vendor revisions that come before
\* 1.2, or after it with an original timestamp less than that of 1.2
VendorBefore12 ==
  {i \in DOMAIN rev_order :
     /\ vendor_revision(rev_order[i])
     /\ \/ i < IndexOf(rev_order, R12)
        \/ rev_data[rev_order[i]].original_timestamp
             < rev_data[R12].original_timestamp}

C28_LogOf11ClearsTheHead ==
  [][phase = "deltas" =>
       /\ all_revs' # all_revs =>
            LET c_rev == cvs_revs_db'[Last(all_revs')] IN
            IF c_rev.rev = R11 /\ c_rev.digest[1] # InitialRevisionLog
            THEN cvs_file'.default_branch = None
            ELSE cvs_file'.default_branch = cvs_file.default_branch
       /\ cvs_file_db' # cvs_file_db =>
            /\ DOMAIN cvs_file_db' = DOMAIN cvs_file_db \cup {cvs_file.id}
            /\ cvs_file_db'[cvs_file.id].default_branch = cvs_file.default_branch
    ]_vars

\* The principal branch 1.1.1 was declared and 1.1.1.1 defined; 1.1 has
\* the log message 'Merged foo\n' and the head is none
C28_Witness ==
  /\ phase = "deltas"
  /\ default_branch = <<1, 1, 1>>
  /\ R1111 \in DOMAIN rev_data
  /\ R11 \in Emitted
  /\ EmittedLog(R11) = "Merged foo\n"
  /\ cvs_file.default_branch = None

\* The places in callback order of the revisions directly on the declared
\* principal branch: the branch number and one more component
DirectlyOnPrincipalBranch ==
  {i \in DOMAIN rev_order : Front(rev_order[i]) = default_branch}

\* C29: when a principal branch b is declared, after tree_completed the
\* default-branch head is the last revision in callback order that lies
\* directly on b, or none if there is no such revision; revisions on
\* branches that sprout from revisions of b, and vendor revisions (1.1.1.N)
\* not on b, never become the head.
C29_HeadOfPrincipalBranch ==
  (/\ TreeCompleted
   /\ Emitted = {}
   /\ default_branch # None)
  => IF DirectlyOnPrincipalBranch = {} THEN cvs_file.default_branch = None
     ELSE \E i \in DirectlyOnPrincipalBranch :
            /\ cvs_file.default_branch = rev_order[i]
            /\ \A j \in DirectlyOnPrincipalBranch : j <= i

\* 1.1.1 declared: 1.1.1.2 is the head, though 1.1.1.1.2.1, of a branch
\* that sprouts from 1.1.1.1, comes after it
C29_Witness ==
  /\ TreeCompleted
  /\ Emitted = {}
  /\ default_branch = <<1, 1, 1>>
  /\ rev_order = <<R11, R1111, R1112, R111121>>
  /\ cvs_file.default_branch = R1112

\* r has a parent on its own line and a predecessor on that line, before
\* the parent, that is alive: r is added again after a delete on the branch
RECURSIVE LiveBefore(_, _)
LiveBefore(rd, r) ==
  LET p == rd[r].parent IN
  /\ p # None
  /\ is_same_line_of_development(r, p)
  /\ rd[p].state # "dead" \/ LiveBefore(rd, p)

\* C30: the upgrade from Add to Change applies only to the first live
\* revision of a branch whose predecessors on the branch are all dead (above
\* a live sprout); a live branch revision whose parent is dead and which has
\* an earlier live revision on the same branch, a re-add after a delete on
\* the branch, is emitted as an Add.
C30_ReAddOnBranchIsAdd ==
  \A r \in Emitted :
    (/\ is_branch_revision(r)
     /\ rev_data[r].state # "dead"
     /\ rev_data[r].parent # None
     /\ rev_data[rev_data[r].parent].state = "dead")
    => /\ EmittedOp(r) = "OP_CHANGE" => DeadUpToLiveSprout(rev_data, r)
       /\ LiveBefore(rev_data, rev_data[r].parent) => EmittedOp(r) = "OP_ADD"

\* The revisions that have r as their previous revision: its successor on
\* its line and the first commits of the branches that sprout from it
ChildrenOf(r) == {c \in DOMAIN rev_data : rev_data[c].parent = r}

\* C31: after tree_completed, the timestamp of each revision is the least
\* of its original timestamp and, for each of its children, one second
\* before the child's final timestamp; a revision without children keeps
\* its original timestamp, and at no time is a timestamp later than the
\* original one.
C31_LeastOfOriginalAndChildren ==
  /\ \A r \in DOMAIN rev_data :
       rev_data[r].timestamp <= rev_data[r].original_timestamp
  /\ TreeCompleted =>
       \A r \in DOMAIN rev_data :
         /\ rev_data[r].timestamp =
              SetMin({rev_data[r].original_timestamp}
                     \cup {rev_data[c].timestamp - 1 : c \in ChildrenOf(r)})
         /\ ChildrenOf(r) = {} =>
              rev_data[r].timestamp = rev_data[r].original_timestamp

\* 1.1 has the children 1.2 (recorded at 6) and 1.1.1.1 (recorded at 5): it
\* ends at 4, one second before 1.1.1.1, and the two keep their timestamps
C31_Witness ==
  /\ TreeCompleted
  /\ ChildrenOf(R11) = {R12, R1111}
  /\ ChildrenOf(R12) = {}
  /\ ChildrenOf(R1111) = {}
  /\ rev_data[R11].original_timestamp = 6
  /\ rev_data[R12].timestamp = 6
  /\ rev_data[R1111].timestamp = 5
  /\ rev_data[R11].timestamp = 4

\* The revisions whose timestamp the step changes, during the resync
Adjusted == {r \in DOMAIN rev_data :
               /\ r \in DOMAIN rev_data'
               /\ rev_data'[r].timestamp # rev_data[r].timestamp}

\* C32 as claimed: every revision whose final timestamp is more than the
\* commit threshold away from its original timestamp has had a
\* significant-timestamp-change warning emitted (here: at least one such
\* warning was emitted for its file).
C32_DriftIsWarned ==
  TreeCompleted =>
    \A r \in DOMAIN rev_data :
      (rev_data[r].original_timestamp - rev_data[r].timestamp > COMMIT_THRESHOLD)
      => \E i \in DOMAIN log_warn :
           /\ log_warn[i][1] = "Significant timestamp change"
           /\ log_warn[i][2] = cvs_file.canonical_filename

\* C32: every single adjustment of the resync that moves a revision's
\* timestamp by more than the commit threshold emits a warning with the
\* file and the change of that adjustment, an adjustment within the
\* threshold emits none, and in both cases the resync goes on with the
\* adjusted timestamp and raises nothing.  (The changes of several
\* adjustments of one revision are not added up.)
C32_AdjustmentBeyondThresholdIsWarned ==
  [][\A r \in Adjusted :
       LET delta == rev_data'[r].timestamp - rev_data[r].timestamp
       IN /\ phase = "resync" /\ phase' = "resync" /\ exc' = exc
          /\ rev_data'[r].adjusted
          /\ IF delta > COMMIT_THRESHOLD \/ -delta > COMMIT_THRESHOLD
             THEN log_warn' = Append(log_warn,
                                     <<"Significant timestamp change",
                                       cvs_file.canonical_filename, delta>>)
             ELSE log_warn' = log_warn]_vars

\* 1.1 recorded at 6 and 1.2 at 5: 1.1 is moved to 4 in one adjustment of
\* two seconds, with a warning, and emitted with the timestamp 4
C32_Witness ==
  /\ TreeCompleted
  /\ DOMAIN rev_data = {R11, R12}
  /\ rev_data[R12].parent = R11
  /\ rev_data[R11].original_timestamp = 6
  /\ rev_data[R12].original_timestamp = 5
  /\ log_warn = << <<"Significant timestamp change",
                     cvs_file.canonical_filename, -2>> >>
  /\ R11 \in Emitted
  /\ EmittedTimestamp(R11) = 4

\* set_revision_info has been called for every revision of the file, and
\* parse_completed comes next
AllEmitted == TreeCompleted /\ Emitted = DOMAIN rev_data

\* How many times x is in the sequence s
Occurrences(s, x) == Cardinality({i \in DOMAIN s : s[i] = x})

\* The branch of the symbol collector is in the branch-name list of the
\* CVSRevision of its parent revision, once, and in no other list
BranchListedOnce(branch_data) ==
  /\ branch_data.parent \in Emitted
  /\ \A r \in Emitted :
       Occurrences(EmittedRevision(r).branch_names, branch_data.name)
         = IF r = branch_data.parent THEN 1 ELSE 0

\* The tag is in the tag-name list of the CVSRevision of the revision it
\* points to, and in no other list
TagListedOnce(tag_data) ==
  /\ tag_data.rev \in Emitted
  /\ \A r \in Emitted :
       Occurrences(EmittedRevision(r).tag_names, tag_data.name)
         = IF r = tag_data.rev THEN 1 ELSE 0

\* The tags defined in the file
TagsDefined ==
  UNION {Range(tags_data[revision]) : revision \in DOMAIN tags_data}

\* C33 as claimed: for a file whose analysis completes, every branch of the
\* symbol collector is listed exactly once, by the CVSRevision of its parent
\* revision, and every tag defined in the file is listed by exactly the
\* CVSRevision of the revision it points to.
C33_EverySymbolListed ==
  AllEmitted =>
    /\ \A b \in DOMAIN branches_data : BranchListedOnce(branches_data[b])
    /\ \A t \in TagsDefined : TagListedOnce(t)

\* C33: for a file whose analysis completes, every branch of the symbol
\* collector (named or unlabeled, with or without commits) is listed exactly
\* once, by the CVSRevision of its parent revision, and every tag that
\* points to a revision of the file is listed by exactly the CVSRevision of
\* that revision; a tag that points to no revision of the file is listed
\* by no CVSRevision.
C33_SymbolsOfTheFileListed ==
  AllEmitted =>
    /\ \A b \in DOMAIN branches_data : BranchListedOnce(branches_data[b])
    /\ \A t \in TagsDefined :
         IF t.rev \in DOMAIN rev_data THEN TagListedOnce(t)
         ELSE \A r \in Emitted :
                Occurrences(EmittedRevision(r).tag_names, t.name) = 0

\* 1.1 with the tag T and the branch B = 1.1.1, on which nothing was
\* committed: the CVSRevision of 1.1 lists both
C33_Witness ==
  /\ AllEmitted
  /\ DOMAIN rev_data = {R11}
  /\ DOMAIN branches_data = {<<1, 1, 1>>}
  /\ branches_data[<<1, 1, 1>>].child = None
  /\ DOMAIN tags_data = {R11}
  /\ EmittedRevision(R11).branch_names = <<Name("B")>>
  /\ EmittedRevision(R11).tag_names = <<Name("T")>>

\* The commit has CVSRevisions and a symbolic name
RevisionsAndName(self) ==
  self.cvs_revs # <<>> /\ self.symbolic_name # None

\* C34: reading back (__setstate__) the state of a commit that has both a
\* symbolic name and CVSRevisions raises
\* SVNCommitInternalInconsistencyError when trunk_only is off; when
\* trunk_only is on it returns without error, and the commit read has no
\* symbolic name and no motivating revnum.
C34_BothRaisesUnlessTrunkOnly ==
  [][\A i \in DOMAIN commits :
       (Retrieve(i) /\ RevisionsAndName(commits[i]))
       => IF trunk_only
          THEN /\ commit_exc' = "None"
               /\ Len(commits') = Len(commits) + 1
               /\ Last(commits').symbolic_name = None
               /\ Last(commits').motivating_revnum = None
               /\ Last(commits').cvs_revs = commits[i].cvs_revs
          ELSE /\ commit_exc' = "SVNCommitInternalInconsistencyError"
               /\ commits' = commits]_vars

\* With --trunk-only: a post-commit of r2 with a CVSRevision, given a
\* symbolic name, is read back without its name and its motivating revnum
C34_Witness ==
  /\ trunk_only
  /\ commit_exc = "None"
  /\ Len(commits) = 2
  /\ commits[1].class = "SVNPostCommit"
  /\ RevisionsAndName(commits[1])
  /\ commits[1].motivating_revnum = <<2>>
  /\ commits[2].description = "Retrieved from disk"
  /\ commits[2].cvs_revs = commits[1].cvs_revs
  /\ commits[2].symbolic_name = None
  /\ commits[2].motivating_revnum = None

\* C35: with trunk_only off, __setstate__ applied to the __getstate__ of a
\* commit that does not carry both CVSRevisions and a symbolic name gives a
\* commit with the same revnum, the same CVSRevision ids in the same order,
\* the same motivating revnum, the same symbolic name and the same date,
\* and leaves the counter SVNCommit.revnum as it was.
C35_StateRoundTrip ==
  [][\A i \in DOMAIN commits :
       (Retrieve(i) /\ ~trunk_only /\ ~RevisionsAndName(commits[i]))
       => /\ commit_exc' = "None"
          /\ Len(commits') = Len(commits) + 1
          /\ Last(commits').revnum = commits[i].revnum
          /\ Last(commits').cvs_revs = commits[i].cvs_revs
          /\ Last(commits').motivating_revnum = commits[i].motivating_revnum
          /\ Last(commits').symbolic_name = commits[i].symbolic_name
          /\ Last(commits').date = commits[i].date
          /\ SVNCommit_revnum' = SVNCommit_revnum]_vars

\* A post-commit of r2 with the CVSRevision 26 (written '1a') and the
\* CVSRevision 1 added to it, read back as it was; the counter stays at 3
C35_Witness ==
  /\ ~trunk_only
  /\ commit_exc = "None"
  /\ Len(commits) = 2
  /\ commits[1].class = "SVNPostCommit"
  /\ commits[1].cvs_revs = <<26, 1>>
  /\ commits[2].description = "Retrieved from disk"
  /\ commits[2].revnum = commits[1].revnum
  /\ commits[2].cvs_revs = <<26, 1>>
  /\ commits[2].motivating_revnum = <<2>>
  /\ commits[2].symbolic_name = None
  /\ SVNCommit_revnum = 3

\* The revisions, branches and tags of the running file, each with the id
\* it was given
ItemsWithId ==
  {<<"revision", r, rev_data[r].cvs_rev_id>> : r \in DOMAIN rev_data}
  \cup {<<"branch", b, branches_data[b].id>> : b \in DOMAIN branches_data}
  \cup {<<"tag", t.name, t.id>> : t \in TagsDefined}

\* The ids held by the running file and by the CVSRevisions stored so far
IdsGiven == {x[3] : x \in ItemsWithId} \cup DOMAIN cvs_revs_db

\* C36: across the process_file calls, the ids given to revisions, branches
\* and tags, all drawn from the one key generator, are pairwise distinct
\* (those of a file among themselves, and each new one from every id given
\* before, which is below the generator's next key), and the file ids are
\* distinct and strictly increasing in the order of the process_file calls,
\* the files whose parse failed included.
C36_IdsAreDistinct ==
  /\ [](/\ \A x, y \in ItemsWithId : x[3] = y[3] => x = y
        /\ \A id \in DOMAIN cvs_revs_db :
             \A x \in ItemsWithId :
               x[3] = id => /\ x[1] = "revision"
                            /\ cvs_revs_db[id].rev = x[2]
                            /\ cvs_revs_db[id].cvs_file.id = cvs_file.id
        /\ \A id \in IdsGiven : id < key_generator
        /\ cvs_file.id < file_key_generator
        /\ \A id \in DOMAIN cvs_file_db : id < file_key_generator)
  /\ [][/\ \A id \in IdsGiven' \ IdsGiven : id >= key_generator
        /\ key_generator' >= key_generator
        /\ IF processed' # processed
           THEN /\ cvs_file'.id >= file_key_generator
                /\ file_key_generator' > cvs_file'.id
           ELSE /\ file_key_generator' = file_key_generator
                /\ cvs_file'.id \in {cvs_file.id, NoCvsFile.id}]_vars

\* The second file, after the first one failed with a CVSRevision stored:
\* it has the file id 2, and its tag, its branch and its two revisions have
\* four more ids
C36_Witness ==
  /\ Cardinality(processed) = 2
  /\ cvs_file.id = 2
  /\ cvs_file_db = EmptyDict
  /\ \E i \in DOMAIN fatal_errors : fatal_errors[i].kind = "not a valid ,v file"
  /\ \E id \in DOMAIN cvs_revs_db : cvs_revs_db[id].cvs_file.id = 1
  /\ Cardinality(ItemsWithId) = 4
  /\ Cardinality({x[3] : x \in ItemsWithId}) = 4
  /\ DOMAIN branches_data # {}
  /\ DOMAIN tags_data # {}

\* The CVSRevisions of the running file that are persisted
StoredOfFile == {id \in DOMAIN cvs_revs_db : cvs_revs_db[id].cvs_file.id = cvs_file.id}

\* A step that writes the CVSFile record is a parse_completed step that adds
\* the running file's record, every CVSRevision of the file being persisted
\* and in the all-revisions log already.
FileStoredAtParseCompleted ==
  [][cvs_file_db' # cvs_file_db =>
       /\ phase = "deltas"
       /\ cvs_file.id \notin DOMAIN cvs_file_db
       /\ cvs_file_db' = Put(cvs_file_db, cvs_file.id, cvs_file)
       /\ StoredOfFile = {rev_data[r].c_rev[1] : r \in Emitted}
       /\ StoredOfFile \subseteq Range(all_revs)
       /\ all_revs' = all_revs
       /\ cvs_revs_db' = cvs_revs_db]_vars

\* A step that persists a CVSRevision or writes the all-revisions log is a
\* set_revision_info step that does both for the one new CVSRevision, the
\* log growing at its end.
RevisionsLoggedInCallOrder ==
  [][(all_revs' # all_revs \/ cvs_revs_db' # cvs_revs_db) =>
       /\ phase = "deltas"
       /\ \E r \in Emitted' \ Emitted :
            LET id == rev_data'[r].c_rev[1] IN
            /\ Emitted' = Emitted \cup {r}
            /\ id \notin DOMAIN cvs_revs_db
            /\ DOMAIN cvs_revs_db' = DOMAIN cvs_revs_db \cup {id}
            /\ cvs_revs_db'[id].rev = r
            /\ cvs_revs_db'[id].cvs_file.id = cvs_file.id
            /\ \A x \in DOMAIN cvs_revs_db : cvs_revs_db'[x] = cvs_revs_db[x]
            /\ all_revs' = Append(all_revs, id)]_vars

ParseCompletedReturned ==
  DOMAIN cvs_file_db \ (IF phase = "raised" THEN {cvs_file.id} ELSE {})

====
